---- MODULE Spec2Model ----
(***************************************************************************)
(* Model of the LSM-tree storage engine: the memtable (SkipList.js), the   *)
(* SSTable and SSTableManager (SSTable.js), the bloom filter and the       *)
(* leveled compaction engine with its min-heap (Compaction.js) and the     *)
(* LSMTree facade (LSMTree.js).                                            *)
(*                                                                         *)
(* Keys are strings, modelled as sequences of UTF-16 code units and        *)
(* compared as JavaScript compares strings.  Values are opaque; they are   *)
(* modelled as small naturals, with Null standing for JavaScript null,     *)
(* which the engine uses as the tombstone.  JavaScript arrays are 0-based; *)
(* the sequences below are 1-based, index arithmetic is shifted by one.    *)
(***************************************************************************)
EXTENDS Integers, Sequences, FiniteSets, TLC

VARIABLES
    memtable,      \* LSMTree.memtable: the skip list's level-0 chain, a sequence of [key, value]
    memtableLevel, \* LSMTree.memtable.level: the height of the skip list
    threshold,     \* LSMTree.memtableThreshold
    levels,        \* SSTableManager.levels: level -> sequence of SSTables (insertion order)
    nextId,        \* SSTableManager.nextId
    stats,         \* LSMTree.stats: the operation and bloom-filter counters
    compaction,    \* Compaction: compactionHistory, totalCompactions, totalBytesCompacted
    callbacks,     \* LSMTree.callbacks: per event, what is registered
    lastWrite,     \* history: per key, the last put/delete issued by the caller
    lastCompacted, \* history: the output-bytes sum right after the latest compaction
    lastOp,        \* history: the call that produced the current state, with its result
    skiplist,      \* a SkipList used on its own: header, nodes and forward pointers
    reference      \* history: per key, the value an ordered map holds after the same calls

vars == <<memtable, memtableLevel, threshold, levels, nextId, stats, compaction, callbacks,
          lastWrite, lastCompacted, lastOp, skiplist, reference>>

----------------------------------------------------------------------------
(* Bounds of the model *)

NListKeys == 3      \* SpecSkipList: number of distinct keys inserted and deleted
NListValues == 2    \* SpecSkipList: number of distinct values
ListMaxLevel == 2   \* SpecSkipList: the maxLevel the list is constructed with
NTermKeys == 2      \* SpecTerminal: number of distinct keys typed
MaxTermId == 4      \* SpecTerminal: commands are typed while nextId <= MaxTermId
MaxTermOps == 4     \* SpecTerminal: commands are typed while puts + gets + deletes < MaxTermOps
MaxLongId == 22     \* SpecLong: puts, deletes and compacts are called while nextId <= MaxLongId
MaxLongOps == 13    \* SpecLong: puts, gets and deletes are called while their total < MaxLongOps
NKeys == 2          \* Spec: number of distinct keys the caller uses
NVals == 2          \* Spec: number of distinct non-null values the caller uses
MaxThreshold == 2   \* Spec: the memtable thresholds tried are 1..MaxThreshold
MaxId == 3          \* Spec: calls are issued while nextId <= MaxId
NDeepKeys == 3      \* SpecDeep: number of distinct keys the caller uses
MaxDeepId == 5      \* SpecDeep: calls are issued while nextId <= MaxDeepId
MaxLevel == 3       \* deepest level of the level map that is modelled
MaxOps == 4         \* puts, gets and deletes are issued while fewer than MaxOps are counted
MaxNodeLevel == 1   \* randomLevel() draws from 0..MaxNodeLevel
MaxHookOps == 2     \* SpecHooks: puts, gets and deletes are issued while fewer are counted
MaxHookId == 2      \* SpecHooks: calls are issued while nextId <= MaxHookId
NHookKeys == 2      \* SpecHooks: number of distinct keys the caller uses
MaxHookThreshold == 3   \* SpecHooks: the memtable thresholds tried are 1..MaxHookThreshold
MaxTableLen == 22   \* SpecTable: the tables built hold 1..MaxTableLen records
NScanBounds == 6    \* SpecTable: scan bounds are the NScanBounds lowest keys and the highest key

(* Program constants *)

SparseStep == 10            \* SSTable constructor: buildSparseIndex(10)
AutoLevels == 3             \* runAutoCompaction: for (level = 0; level < 3; level++)
DefaultCompactThreshold == 1000

Null == 0                   \* JavaScript null: the tombstone value
Undefined == -1             \* JavaScript undefined where a number is expected
NullKey == <<-1>>           \* JavaScript null where a key is expected (lastKey, keyRange of an empty table)

KeyOf(i) == <<96 + i>>                    \* "a", "b", "c", ...
Keys == {KeyOf(i) : i \in 1..NKeys}
DeepKeys == {KeyOf(i) : i \in 1..NDeepKeys}
EmptyKey == <<>>                          \* the empty string ""
HookKeys == {KeyOf(i) : i \in 1..NHookKeys}
EdgeKeys == {EmptyKey, KeyOf(1)}          \* SpecEdge: the caller also uses the empty string as a key
TermKeys == {KeyOf(i) : i \in 1..NTermKeys}
AllKeys == Keys \cup DeepKeys \cup EdgeKeys \cup HookKeys \cup TermKeys
Values == 1..NVals
DeepValues == {1}
HookValues == {1}
ListKeys == {KeyOf(i) : i \in 1..NListKeys}
ListValues == 1..NListValues
NodeLevels == 0..MaxNodeLevel
Levels == 0..MaxLevel

\* SpecTable: the keys asked for are single code units around the keys of the
\* tables built, which take every second of them from FirstUnit + 1 or + 2
FirstUnit == 97
TableUnits == FirstUnit..(FirstUnit + 2 * MaxTableLen + 2)
TableKeys == {<<c>> : c \in TableUnits}
ScanBounds == {<<c>> : c \in FirstUnit..(FirstUnit + NScanBounds - 1)}
                  \cup {<<FirstUnit + 2 * MaxTableLen + 2>>}

----------------------------------------------------------------------------
(* JavaScript string comparison  a < b  on sequences of code units *)

RECURSIVE StrLess(_, _)
StrLess(a, b) ==
    IF b = <<>> THEN FALSE
    ELSE IF a = <<>> THEN TRUE
    ELSE IF Head(a) # Head(b) THEN Head(a) < Head(b)
    ELSE StrLess(Tail(a), Tail(b))

StrLeq(a, b) == ~StrLess(b, a)

----------------------------------------------------------------------------
(* SkipList.js: the memtable, seen through its level-0 chain *)

\* number of nodes the descent of insert/search passes: those with key < key
RECURSIVE SkipListDescend(_, _)
SkipListDescend(list, key) ==
    IF list # <<>> /\ StrLess(Head(list).key, key)
    THEN 1 + SkipListDescend(Tail(list), key)
    ELSE 0

SkipListInsert(list, key, value) ==
    LET At(p) ==
            IF p <= Len(list) /\ list[p].key = key
            THEN [list EXCEPT ![p].value = value]
            ELSE SubSeq(list, 1, p - 1) \o <<[key |-> key, value |-> value]>>
                 \o SubSeq(list, p, Len(list))
    IN  At(SkipListDescend(list, key) + 1)

SkipListSearch(list, key) ==
    LET At(p) ==
            IF p <= Len(list) /\ list[p].key = key
            THEN [found |-> TRUE, value |-> list[p].value]
            ELSE [found |-> FALSE, value |-> Null]
    IN  At(SkipListDescend(list, key) + 1)

SkipListSize(list) == Len(list)

SkipListGetAllEntries(list) == list

SkipListIsEmpty(list) == SkipListSize(list) = 0

----------------------------------------------------------------------------
(* SkipList.js: the list with its nodes and forward pointers.  A list is     *)
(* [maxLevel, level, size, header, nodes]: header is the header node's       *)
(* forward array, nodes maps a node id to [key, value, forward]; a pointer   *)
(* is a node id, NullNode for null and HeaderNode for the header.  forward   *)
(* arrays are 0-based in the code: level i is element i + 1 here.            *)

NullNode == 0
HeaderNode == -1

\* new SkipList(maxLevel), and clear(): a fresh header, level 0, size 0
NewSkipList(maxLevel) ==
    [maxLevel |-> maxLevel, level |-> 0, size |-> 0,
     header |-> [i \in 1..(maxLevel + 1) |-> NullNode], nodes |-> <<>>]

\* new SkipListNode(key, value, level): forward = new Array(level + 1).fill(null)
NewSkipListNode(key, value, level) ==
    [key |-> key, value |-> value, forward |-> [i \in 1..(level + 1) |-> NullNode]]

ListClear(sl) == NewSkipList(sl.maxLevel)

\* node.forward[i]: undefined (falsy, like null) past the end of the array
Forward(sl, n, i) ==
    IF n = HeaderNode THEN (IF i + 1 <= Len(sl.header) THEN sl.header[i + 1] ELSE NullNode)
    ELSE IF i + 1 <= Len(sl.nodes[n].forward) THEN sl.nodes[n].forward[i + 1]
    ELSE NullNode

\* while (current.forward[i] && current.forward[i].key < key) current = current.forward[i]
RECURSIVE ListAdvance(_, _, _, _)
ListAdvance(sl, current, i, key) ==
    IF Forward(sl, current, i) # NullNode /\ StrLess(sl.nodes[Forward(sl, current, i)].key, key)
    THEN ListAdvance(sl, Forward(sl, current, i), i, key)
    ELSE current

\* for (i = this.level; i >= 0; i--) { advance; update[i] = current }: the
\* update array (level i at element i + 1)
RECURSIVE ListDescend(_, _, _, _, _)
ListDescend(sl, current, i, key, update) ==
    IF i < 0 THEN update
    ELSE LET Stopped(c) == ListDescend(sl, c, i - 1, key, [update EXCEPT ![i + 1] = c])
         IN  Stopped(ListAdvance(sl, current, i, key))

ListUpdate(sl, key) ==
    ListDescend(sl, HeaderNode, sl.level, key, [i \in 1..(sl.maxLevel + 1) |-> NullNode])

\* getNodeLevel(node): the number of leading non-null forward pointers, minus one
RECURSIVE CountForward(_, _, _)
CountForward(sl, n, level) ==
    IF level <= sl.maxLevel /\ Forward(sl, n, level) # NullNode
    THEN CountForward(sl, n, level + 1)
    ELSE level

GetNodeLevel(sl, n) == CountForward(sl, n, 0) - 1

\* the identity of a newly allocated node: the least one not in use
FreshNode(sl) ==
    CHOOSE n \in 1..(Cardinality(DOMAIN sl.nodes) + 1) :
        n \notin DOMAIN sl.nodes /\ \A m \in 1..(n - 1) : m \in DOMAIN sl.nodes

\* the list with one more allocated node
WithNode(sl, n, node) ==
    [sl EXCEPT !.nodes = [m \in DOMAIN sl.nodes \cup {n} |-> IF m = n THEN node ELSE sl.nodes[m]]]

\* a node no pointer refers to any more is reclaimed
Referenced(sl, n) ==
    \/ \E i \in DOMAIN sl.header : sl.header[i] = n
    \/ \E m \in DOMAIN sl.nodes : \E i \in DOMAIN sl.nodes[m].forward : sl.nodes[m].forward[i] = n

Reclaim(sl, n) ==
    IF Referenced(sl, n) THEN sl
    ELSE [sl EXCEPT !.nodes = [m \in DOMAIN sl.nodes \ {n} |-> sl.nodes[m]]]

\* update[i].forward[i] = target
SetForward(sl, n, i, target) ==
    IF n = HeaderNode THEN [sl EXCEPT !.header[i + 1] = target]
    ELSE [sl EXCEPT !.nodes[n].forward[i + 1] = target]

\* for (i = 0; i <= newLevel; i++) { newNode.forward[i] = update[i].forward[i];
\*                                   update[i].forward[i] = newNode }
RECURSIVE ListLink(_, _, _, _, _)
ListLink(sl, update, node, i, newLevel) ==
    IF i > newLevel THEN sl
    ELSE ListLink(SetForward(SetForward(sl, node, i, Forward(sl, update[i + 1], i)),
                             update[i + 1], i, node),
                  update, node, i + 1, newLevel)

\* an insert that adds a node for a key already present instead of updating it
ListInsertAlwaysNew(sl, key, value, newLevel) ==
    LET Linked(update, node, raised) ==
            [list |-> [ListLink(WithNode(raised, node, NewSkipListNode(key, value, newLevel)),
                                [i \in 1..(sl.maxLevel + 1) |->
                                    IF i - 1 > sl.level THEN HeaderNode ELSE update[i]],
                                node, 0, newLevel)
                          EXCEPT !.size = @ + 1],
             operation |-> "INSERT", level |-> newLevel]
    IN  Linked(ListUpdate(sl, key), FreshNode(sl),
               IF newLevel > sl.level THEN [sl EXCEPT !.level = newLevel] ELSE sl)

\* insert(key, value); newLevel is what randomLevel() draws if it is called.
\* The result's operation and level, and the list left.
ListInsert(sl, key, value, newLevel) ==
    LET Linked(update, node, raised) ==
            [list |-> [ListLink(WithNode(raised, node, NewSkipListNode(key, value, newLevel)),
                                [i \in 1..(sl.maxLevel + 1) |->
                                    IF i - 1 > sl.level THEN HeaderNode ELSE update[i]],
                                node, 0, newLevel)
                          EXCEPT !.size = @ + 1],
             operation |-> "INSERT", level |-> newLevel]
        Found(update, current) ==
            IF current # NullNode /\ sl.nodes[current].key = key
            THEN [list |-> [sl EXCEPT !.nodes[current].value = value],
                  operation |-> "UPDATE", level |-> GetNodeLevel(sl, current)]
            ELSE Linked(update, FreshNode(sl),
                        IF newLevel > sl.level THEN [sl EXCEPT !.level = newLevel] ELSE sl)
        Descended(update) == Found(update, Forward(sl, update[1], 0))
    IN  Descended(ListUpdate(sl, key))

\* search(key): found and value
ListSearch(sl, key) ==
    LET Found(current) ==
            IF current # NullNode /\ sl.nodes[current].key = key
            THEN [found |-> TRUE, value |-> sl.nodes[current].value]
            ELSE [found |-> FALSE, value |-> Null]
        Descended(update) == Found(Forward(sl, update[1], 0))
    IN  Descended(ListUpdate(sl, key))

\* for (i = 0; i <= this.level; i++) { if (update[i].forward[i] !== current) break;
\*                                     update[i].forward[i] = current.forward[i] }
RECURSIVE ListUnlink(_, _, _, _)
ListUnlink(sl, update, current, i) ==
    IF i > sl.level \/ Forward(sl, update[i + 1], i) # current THEN sl
    ELSE ListUnlink(SetForward(sl, update[i + 1], i, Forward(sl, current, i)),
                    update, current, i + 1)

\* while (this.level > 0 && !this.header.forward[this.level]) this.level--
RECURSIVE ListShrink(_)
ListShrink(sl) ==
    IF sl.level > 0 /\ Forward(sl, HeaderNode, sl.level) = NullNode
    THEN ListShrink([sl EXCEPT !.level = @ - 1])
    ELSE sl

\* a delete that leaves the list's level where it was
ListDeleteKeepLevel(sl, key) ==
    LET Found(update, current) ==
            IF current = NullNode \/ sl.nodes[current].key # key
            THEN [list |-> sl, success |-> FALSE]
            ELSE [list |-> Reclaim([ListUnlink(sl, update, current, 0)
                                        EXCEPT !.size = @ - 1], current),
                  success |-> TRUE]
        Descended(update) == Found(update, Forward(sl, update[1], 0))
    IN  Descended(ListUpdate(sl, key))

\* delete(key): success, and the list left
ListDelete(sl, key) ==
    LET Found(update, current) ==
            IF current = NullNode \/ sl.nodes[current].key # key
            THEN [list |-> sl, success |-> FALSE]
            ELSE [list |-> Reclaim([ListShrink(ListUnlink(sl, update, current, 0))
                                        EXCEPT !.size = @ - 1], current),
                  success |-> TRUE]
        Descended(update) == Found(update, Forward(sl, update[1], 0))
    IN  Descended(ListUpdate(sl, key))

\* the nodes of the chain at level i from node n on, in order (the walk of
\* getAllEntries for i = 0); fuel bounds the walk by the number of nodes
RECURSIVE ListChain(_, _, _, _)
ListChain(sl, n, i, fuel) ==
    IF n = NullNode \/ fuel = 0 THEN <<>>
    ELSE <<n>> \o ListChain(sl, Forward(sl, n, i), i, fuel - 1)

ChainAt(sl, i) == ListChain(sl, Forward(sl, HeaderNode, i), i, Cardinality(DOMAIN sl.nodes) + 1)

\* getAllEntries(): { key, value } of every node along level 0
ListGetAllEntries(sl) ==
    LET Entries(chain) ==
            [p \in 1..Len(chain) |-> [key |-> sl.nodes[chain[p]].key, value |-> sl.nodes[chain[p]].value]]
    IN  Entries(ChainAt(sl, 0))

----------------------------------------------------------------------------
(* BloomFilter (Compaction.js): 32-bit words are pairs <<high 16 bits, low 16 bits>> *)

W16 == 65536

RECURSIVE XorBits(_, _, _)
XorBits(a, b, n) ==
    IF n = 0 THEN 0
    ELSE (((a % 2) + (b % 2)) % 2) + 2 * XorBits(a \div 2, b \div 2, n - 1)

WordAdd(a, b) ==
    LET l == a[2] + b[2] IN <<(a[1] + b[1] + (l \div W16)) % W16, (l % W16)>>

WordNegate(a) == WordAdd(<<65535 - a[1], 65535 - a[2]>>, <<0, 1>>)

\* (w << n) | 0
WordShl(w, n) ==
    IF n >= 16 THEN <<(w[2] * (2^(n - 16))) % W16, 0>>
    ELSE LET l == w[2] * (2^n) IN <<(w[1] * (2^n) + (l \div W16)) % W16, (l % W16)>>

WordXor(w, c) == <<w[1], XorBits(w[2], c, 16)>>

WordIsNeg(w) == w[1] >= 32768

\* Math.abs of the int32 held in w, as an unsigned word
WordAbs(w) == IF WordIsNeg(w) THEN WordNegate(w) ELSE w

\* (top * 2^32 + hi * 2^16 + lo) % m
ModLimbs(top, w, m) ==
    LET r == W16 % m IN (((top % m) * ((r * r) % m)) + ((w[1] % m) * r) + w[2]) % m

\* hash1: hash = ((hash << 5) - hash + key.charCodeAt(i)) | 0, from hash = 0
RECURSIVE Hash1Word(_, _)
Hash1Word(key, hash) ==
    IF key = <<>> THEN hash
    ELSE Hash1Word(Tail(key),
                   WordAdd(WordAdd(WordShl(hash, 5), WordNegate(hash)), <<0, Head(key)>>))

\* hash1(key) = Math.abs(hash) % this.size
BloomHash1(key, size) == ModLimbs(0, WordAbs(Hash1Word(key, <<0, 0>>)), size)

\* hash2 keeps a double between rounds: sign, magnitude top * 2^32 + word
\* hash ^= c (ToInt32 of the double, then xor)
Hash2Low(h) == IF h.neg THEN WordNegate(h.word) ELSE h.word

\* hash += (hash << 1) + (hash << 4) + (hash << 7) + (hash << 8) + (hash << 24)
Hash2Round(h, c) ==
    LET Result(negs, carry, rest) ==
            IF carry >= negs
            THEN [neg |-> FALSE, top |-> carry - negs, word |-> rest]
            ELSE IF rest = <<0, 0>>
            THEN [neg |-> TRUE, top |-> negs - carry, word |-> rest]
            ELSE [neg |-> TRUE, top |-> negs - carry - 1, word |-> WordNegate(rest)]
        Carry(negs, hi, lo) == Result(negs, hi \div W16, <<(hi % W16), (lo % W16)>>)
        High(negs, highs, lo) == Carry(negs, highs + (lo \div W16), lo)
        Sum(terms) ==
            High(Cardinality({i \in 1..6 : WordIsNeg(terms[i])}),
                 terms[1][1] + terms[2][1] + terms[3][1] + terms[4][1] + terms[5][1] + terms[6][1],
                 terms[1][2] + terms[2][2] + terms[3][2] + terms[4][2] + terms[5][2] + terms[6][2])
        Terms(w) ==
            Sum(<<w, WordShl(w, 1), WordShl(w, 4), WordShl(w, 7), WordShl(w, 8), WordShl(w, 24)>>)
    IN  Terms(WordXor(Hash2Low(h), c))

RECURSIVE Hash2Value(_, _)
Hash2Value(key, h) ==
    IF key = <<>> THEN h ELSE Hash2Value(Tail(key), Hash2Round(h, Head(key)))

\* hash2(key): FNV offset basis 2166136261 = 0x811C9DC5; Math.abs(hash) % this.size
BloomHash2(key, size) ==
    LET Mod(h) == ModLimbs(h.top, h.word, size)
    IN  Mod(Hash2Value(key, [neg |-> FALSE, top |-> 0, word |-> <<33052, 40389>>]))

\* constructor: size = ceil(-(n * ln p) / (ln 2)^2) with p = 0.01
BloomSize(n) == (n * 95851 + 9999) \div 10000

\* constructor: numHashes = ceil((size / n) * ln 2); NaN (no probe at all) when n = 0
BloomNumHashes(n) ==
    IF n = 0 THEN 0 ELSE (BloomSize(n) * 6931 + n * 10000 - 1) \div (n * 10000)

\* getHashes: (h1 + i * h2) % size for i = 0 .. numHashes - 1, in a filter
\* built for n elements
GetHashes(key, n) ==
    IF n = 0 THEN {}
    ELSE LET Probes(size, h1, h2) ==
                 {(h1 + (i * h2)) % size : i \in 0..(BloomNumHashes(n) - 1)}
         IN  Probes(BloomSize(n), BloomHash1(key, BloomSize(n)), BloomHash2(key, BloomSize(n)))

\* getHashes of the keys the callers use, tabulated once
HashTable ==
    [k \in AllKeys \cup TableKeys |->
        [n \in 0..(Cardinality(AllKeys) + MaxTableLen) |-> GetHashes(k, n)]]

BloomGetHashes(key, n) ==
    LET Lookup(table) ==
            IF key \in DOMAIN table /\ n \in DOMAIN table[key]
            THEN table[key][n]
            ELSE GetHashes(key, n)
    IN  Lookup(HashTable)

\* a filter in which the first record's key was never added
BuildBloomFilterSkipFirst(entries) ==
    UNION {BloomGetHashes(entries[i].key, Len(entries)) : i \in 2..Len(entries)}

\* buildBloomFilter: the bits set by add(entry.key) for every entry
BuildBloomFilter(entries) ==
    UNION {BloomGetHashes(entries[i].key, Len(entries)) : i \in 1..Len(entries)}

\* contains(key).mightExist for the filter of a table holding these entries
BloomContains(entries, key) ==
    BloomGetHashes(key, Len(entries)) \subseteq BuildBloomFilter(entries)

----------------------------------------------------------------------------
(* SSTable (SSTable.js).  A table is [id, level, entries]; its bloom filter, *)
(* sparse index and key range are fixed by its entries at construction.      *)

\* constructor: entries.sort(by key), a stable sort
RECURSIVE SortInsert(_, _)
SortInsert(sorted, e) ==
    IF sorted = <<>> THEN <<e>>
    ELSE IF StrLess(e.key, Head(sorted).key) THEN <<e>> \o sorted
    ELSE <<Head(sorted)>> \o SortInsert(Tail(sorted), e)

RECURSIVE SortEntries(_)
SortEntries(entries) ==
    IF entries = <<>> THEN <<>>
    ELSE SortInsert(SortEntries(SubSeq(entries, 1, Len(entries) - 1)), entries[Len(entries)])

NewSSTable(id, level, entries) ==
    [id |-> id, level |-> level, entries |-> SortEntries(entries)]

\* buildSparseIndex(step): positions 1, 1 + step, ... and the last one unless
\* the length is a multiple of step
BuildSparseIndex(entries, step) ==
    LET WithLast(n, regular) ==
            IF n % step # 0
            THEN Append(regular, [key |-> entries[n].key, position |-> n])
            ELSE regular
    IN  WithLast(Len(entries),
                 [j \in 1..((Len(entries) + step - 1) \div step) |->
                     [key |-> entries[(j - 1) * step + 1].key, position |-> (j - 1) * step + 1]])

GetKeyRange(entries) ==
    IF Len(entries) = 0 THEN [min |-> NullKey, max |-> NullKey]
    ELSE [min |-> entries[1].key, max |-> entries[Len(entries)].key]

ContainsKeyInRange(t, key) ==
    IF Len(t.entries) = 0 THEN FALSE
    ELSE StrLeq(GetKeyRange(t.entries).min, key) /\ StrLeq(key, GetKeyRange(t.entries).max)

\* JSON.stringify(value).length: "null", or the digits of a number
JsonLength(value) == IF value = Null THEN 4 ELSE IF value < 10 THEN 1 ELSE 2

\* BloomFilter.getMemorySize(): bits.length = ceil(size / 8) bytes, for a
\* filter built for n elements
BloomMemorySize(n) == (BloomSize(n) + 7) \div 8

RECURSIVE EntryBytes(_)
EntryBytes(entries) ==
    IF entries = <<>> THEN 0
    ELSE (Len(Head(entries).key) * 2) + (JsonLength(Head(entries).value) * 2) + 16
         + EntryBytes(Tail(entries))

\* calculateSize(): the records, the bloom filter and 24 bytes per sparse-index slot
CalculateSize(entries) ==
    EntryBytes(entries) + BloomMemorySize(Len(entries))
    + (Len(BuildSparseIndex(entries, SparseStep)) * 24)

RECURSIVE BinarySearch(_, _, _, _)
BinarySearch(entries, key, left, right) ==
    IF left > right THEN [found |-> FALSE, value |-> Null]
    ELSE LET mid == (left + right) \div 2 IN
         IF entries[mid].key = key THEN [found |-> TRUE, value |-> entries[mid].value]
         ELSE IF StrLess(key, entries[mid].key)
         THEN BinarySearch(entries, key, left, mid - 1)
         ELSE BinarySearch(entries, key, mid + 1, right)

\* a narrowing that starts the slice one position after the interval's start
SparseRangeAfterStart(entries, key) ==
    LET Interval(index, i) == [start |-> index[i].position + 1, end |-> index[i + 1].position]
        First(index, hits) ==
            IF hits = {} THEN [start |-> 1, end |-> Len(entries)]
            ELSE Interval(index, CHOOSE h \in hits : \A g \in hits : h <= g)
        Scan(index) ==
            First(index, {i \in 1..(Len(index) - 1) :
                             StrLeq(index[i].key, key) /\ StrLess(key, index[i + 1].key)})
    IN  Scan(BuildSparseIndex(entries, SparseStep))

\* get, step 2: the first sparse-index interval with index[i].key <= key < index[i+1].key
SparseRange(entries, key) ==
    LET Interval(index, i) == [start |-> index[i].position, end |-> index[i + 1].position]
        First(index, hits) ==
            IF hits = {} THEN [start |-> 1, end |-> Len(entries)]
            ELSE Interval(index, CHOOSE h \in hits : \A g \in hits : h <= g)
        Scan(index) ==
            First(index, {i \in 1..(Len(index) - 1) :
                             StrLeq(index[i].key, key) /\ StrLess(key, index[i + 1].key)})
    IN  Scan(BuildSparseIndex(entries, SparseStep))

SSTableGet(t, key) ==
    IF ~BloomContains(t.entries, key)
    THEN [found |-> FALSE, value |-> Null, bloomFilterSaved |-> TRUE]
    ELSE LET Result(b) == [found |-> b.found, value |-> b.value, bloomFilterSaved |-> FALSE]
             Narrowed(r) == Result(BinarySearch(t.entries, key, r.start, r.end))
         IN  Narrowed(SparseRange(t.entries, key))

\* scan, the first loop: the first position whose key is >= startKey;
\* startPos keeps its initial value, the first position, when there is none
ScanStart(entries, startKey) ==
    LET First(hits) == IF hits = {} THEN 1 ELSE CHOOSE h \in hits : \A g \in hits : h <= g
    IN  First({i \in 1..Len(entries) : StrLeq(startKey, entries[i].key)})

\* scan, the second loop: records are pushed from position i until a key > endKey
RECURSIVE ScanFrom(_, _, _)
ScanFrom(entries, i, endKey) ==
    IF i > Len(entries) \/ StrLess(endKey, entries[i].key) THEN <<>>
    ELSE <<entries[i]>> \o ScanFrom(entries, i + 1, endKey)

SSTableScan(t, startKey, endKey) == ScanFrom(t.entries, ScanStart(t.entries, startKey), endKey)

----------------------------------------------------------------------------
(* SSTableManager (SSTable.js) *)

GetLevel(lv, level) == IF level \in DOMAIN lv THEN lv[level] ELSE <<>>

\* an addSSTable that puts the table in place of those the level holds
AddSSTableAlone(lv, level, t) == [lv EXCEPT ![level] = <<t>>]

AddSSTable(lv, level, t) == [lv EXCEPT ![level] = Append(@, t)]

\* a createSSTable that builds every table with level field 0
CreateSSTableLevelZero(lv, id, level, entries) == AddSSTable(lv, level, NewSSTable(id, 0, entries))

\* createSSTable: the table takes id nextId, which is then incremented
CreateSSTable(lv, id, level, entries) == AddSSTable(lv, level, NewSSTable(id, level, entries))

ClearLevel(lv, level) == [lv EXCEPT ![level] = <<>>]

\* a search that leaves no table out for its key range
RECURSIVE SearchCandidatesAll(_, _, _)
SearchCandidatesAll(lv, key, level) ==
    IF level > MaxLevel THEN <<>>
    ELSE [i \in 1..Len(GetLevel(lv, level)) |-> [level |-> level, table |-> GetLevel(lv, level)[i]]]
         \o SearchCandidatesAll(lv, key, level + 1)

\* the tables search considers, in the order it considers them: levels
\* ascending, each level's list front to back, tables of a level > 0 whose
\* range excludes the key left out
RECURSIVE SearchCandidates(_, _, _)
SearchCandidates(lv, key, level) ==
    IF level > MaxLevel THEN <<>>
    ELSE LET Tagged(kept) == [i \in 1..Len(kept) |-> [level |-> level, table |-> kept[i]]]
         IN  Tagged(SelectSeq(GetLevel(lv, level),
                              LAMBDA t : ~(level > 0 /\ ~ContainsKeyInRange(t, key))))
             \o SearchCandidates(lv, key, level + 1)

\* the loop over the candidates: one step per table, stopping at the first hit
RECURSIVE SearchWalk(_, _, _)
SearchWalk(cands, key, path) ==
    IF cands = <<>>
    THEN [found |-> FALSE, value |-> Null, searchPath |-> path, sstablesChecked |-> Len(path)]
    ELSE LET Visit(r, path2) ==
                 IF r.found
                 THEN [found |-> TRUE, value |-> r.value, searchPath |-> path2,
                       sstablesChecked |-> Len(path2)]
                 ELSE SearchWalk(Tail(cands), key, path2)
             Step(c, r) ==
                 Visit(r, Append(path, [level |-> c.level, sstableId |-> c.table.id,
                                        found |-> r.found,
                                        bloomFilterSaved |-> r.bloomFilterSaved]))
         IN  Step(Head(cands), SSTableGet(Head(cands).table, key))

SSTableManagerSearch(lv, key) == SearchWalk(SearchCandidates(lv, key, 0), key, <<>>)

----------------------------------------------------------------------------
(* MinHeap (Compaction.js): a sequence, element i has children 2i and 2i+1 *)

Swap(heap, i, j) == [heap EXCEPT ![i] = heap[j], ![j] = heap[i]]

RECURSIVE BubbleUp(_, _)
BubbleUp(heap, index) ==
    IF index <= 1 THEN heap
    ELSE LET parentIndex == index \div 2 IN
         IF StrLeq(heap[parentIndex].key, heap[index].key) THEN heap
         ELSE BubbleUp(Swap(heap, index, parentIndex), parentIndex)

HeapInsert(heap, element) == BubbleUp(Append(heap, element), Len(heap) + 1)

RECURSIVE BubbleDown(_, _)
BubbleDown(heap, index) ==
    LET leftChild == 2 * index
        rightChild == 2 * index + 1
        Sink(smallest) ==
            IF smallest = index THEN heap
            ELSE BubbleDown(Swap(heap, index, smallest), smallest)
        Right(s1) ==
            Sink(IF rightChild <= Len(heap) /\ StrLess(heap[rightChild].key, heap[s1].key)
                 THEN rightChild ELSE s1)
    IN  Right(IF leftChild <= Len(heap) /\ StrLess(heap[leftChild].key, heap[index].key)
              THEN leftChild ELSE index)

\* extractMin on a non-empty heap: the minimum and the heap left behind
HeapExtractMin(heap) ==
    IF Len(heap) = 1 THEN [min |-> heap[1], heap |-> <<>>]
    ELSE [min |-> heap[1],
          heap |-> BubbleDown(<<heap[Len(heap)]>> \o SubSeq(heap, 2, Len(heap) - 1), 1)]

----------------------------------------------------------------------------
(* Compaction (Compaction.js) *)

\* kWayMerge, initialisation: an iterator for every table with entries, and
\* for each of them a heap element carrying the table's position in sstables
RECURSIVE MergeInit(_, _, _, _)
MergeInit(sstables, i, iterators, heap) ==
    IF i > Len(sstables) THEN [iterators |-> iterators, heap |-> heap]
    ELSE LET entries == sstables[i].entries IN
         IF Len(entries) > 0
         THEN MergeInit(sstables, i + 1,
                        Append(iterators, [entries |-> entries, currentIndex |-> 1]),
                        HeapInsert(heap, [key |-> entries[1].key, value |-> entries[1].value,
                                          iteratorIndex |-> i]))
         ELSE MergeInit(sstables, i + 1, iterators, heap)

\* a merge that pushes the kept record even when it is a tombstone
MergeEmitAlways(merged, min) == Append(merged, [key |-> min.key, value |-> min.value])

\* the kept record of a run of equal keys: pushed unless it is a tombstone
MergeEmit(merged, min) ==
    IF min.value # Null THEN Append(merged, [key |-> min.key, value |-> min.value]) ELSE merged

\* a merge without deduplication: every record extracted is kept
MergeFreshKeepAll(min, lastKey) == TRUE

\* deduplication: a record is kept when its key differs from the last key seen
MergeFresh(min, lastKey) == min.key # lastKey

\* kWayMerge, the extraction loop.  iterators[min.iteratorIndex] is undefined
\* when the index is past the iterator array: the increment then throws.
RECURSIVE MergeLoop(_, _, _, _, _)
MergeLoop(heap, iterators, merged, lastKey, duplicatesRemoved) ==
    IF Len(heap) = 0
    THEN [threw |-> FALSE, entries |-> merged, duplicatesRemoved |-> duplicatesRemoved]
    ELSE LET Advance(rest, min, merged2, dups2) ==
                 IF min.iteratorIndex > Len(iterators)
                 THEN [threw |-> TRUE, entries |-> merged2, duplicatesRemoved |-> dups2]
                 ELSE LET it == iterators[min.iteratorIndex]
                          next == it.currentIndex + 1
                      IN  MergeLoop(IF next <= Len(it.entries)
                                    THEN HeapInsert(rest, [key |-> it.entries[next].key,
                                                           value |-> it.entries[next].value,
                                                           iteratorIndex |-> min.iteratorIndex])
                                    ELSE rest,
                                    [iterators EXCEPT ![min.iteratorIndex].currentIndex = next],
                                    merged2, min.key, dups2)
             Dedup(rest, min, fresh) ==
                 Advance(rest, min,
                         IF fresh THEN MergeEmit(merged, min) ELSE merged,
                         IF fresh THEN duplicatesRemoved ELSE duplicatesRemoved + 1)
             Extracted(x) == Dedup(x.heap, x.min, MergeFresh(x.min, lastKey))
         IN  Extracted(HeapExtractMin(heap))

KWayMerge(sstables) ==
    LET Loop(init) == MergeLoop(init.heap, init.iterators, <<>>, NullKey, 0)
    IN  Loop(MergeInit(sstables, 1, <<>>, <<>>))

\* min/max of a key range is null (or the empty string): no overlap
FalsyKey(k) == k = NullKey \/ k = <<>>

RangesOverlap(range1, range2) ==
    IF FalsyKey(range1.min) \/ FalsyKey(range1.max) \/ FalsyKey(range2.min) \/ FalsyKey(range2.max)
    THEN FALSE
    ELSE ~(StrLess(range1.max, range2.min) \/ StrLess(range2.max, range1.min))

\* a target table is taken when its range overlaps the range of some source table
FindOverlappingSSTables(sourceSSTables, targetSSTables) ==
    SelectSeq(targetSSTables,
              LAMBDA target : \E i \in 1..Len(sourceSSTables) :
                  RangesOverlap(GetKeyRange(sourceSSTables[i].entries), GetKeyRange(target.entries)))

\* sum of s.size over the tables merged
RECURSIVE InputBytes(_)
InputBytes(sstables) ==
    IF sstables = <<>> THEN 0
    ELSE CalculateSize(Head(sstables).entries) + InputBytes(Tail(sstables))

\* outputBytes = mergeResult.entries.length * 100
OutputBytes(entries) == Len(entries) * 100

\* a compaction that goes on whatever the source level holds
SourceIsEmptyNever(sourceSSTables) == FALSE

\* compactLevel, the early return: sourceSSTables.length === 0
SourceIsEmpty(sourceSSTables) == Len(sourceSSTables) = 0

\* compactLevel, between the merge and createSSTable: the level maps the
\* manager passes through, after clearLevel(sourceLevel), after
\* clearLevel(targetLevel) and after each addSSTable of a remaining target
CompactStages(lv, sourceLevel, targetLevel, remainingTarget) ==
    <<ClearLevel(lv, sourceLevel),
      ClearLevel(ClearLevel(lv, sourceLevel), targetLevel)>>
    \o [i \in 1..Len(remainingTarget) |->
           [ClearLevel(lv, sourceLevel) EXCEPT ![targetLevel] = SubSeq(remainingTarget, 1, i)]]

\* compactLevel: the outcome, the level map and the id counter it leaves
CompactLevel(lv, id, sourceLevel, targetLevel) ==
    LET sourceSSTables == GetLevel(lv, sourceLevel)
        targetSSTables == GetLevel(lv, targetLevel)
        Install(sstablesToMerge, mergeResult, remainingTarget) ==
            IF mergeResult.threw
            THEN [success |-> FALSE, threw |-> TRUE, levels |-> lv, nextId |-> id,
                  sourceLevel |-> sourceLevel, targetLevel |-> targetLevel,
                  inputSSTables |-> Len(sstablesToMerge), outputEntries |-> <<>>,
                  inputBytes |-> 0, outputBytes |-> 0,
                  duplicatesRemoved |-> 0, stages |-> <<>>, inputIds |-> {}, outputId |-> 0]
            ELSE [success |-> TRUE, threw |-> FALSE,
                  levels |-> CreateSSTable([ClearLevel(lv, sourceLevel)
                                               EXCEPT ![targetLevel] = remainingTarget],
                                           id, targetLevel, mergeResult.entries),
                  nextId |-> id + 1,
                  sourceLevel |-> sourceLevel, targetLevel |-> targetLevel,
                  inputSSTables |-> Len(sstablesToMerge),
                  outputEntries |-> SortEntries(mergeResult.entries),
                  inputBytes |-> InputBytes(sstablesToMerge),
                  outputBytes |-> OutputBytes(mergeResult.entries),
                  duplicatesRemoved |-> mergeResult.duplicatesRemoved,
                  stages |-> CompactStages(lv, sourceLevel, targetLevel, remainingTarget),
                  inputIds |-> {sstablesToMerge[i].id : i \in 1..Len(sstablesToMerge)},
                  outputId |-> id]
        Merge(sstablesToMerge, remainingTarget) ==
            Install(sstablesToMerge, KWayMerge(sstablesToMerge), remainingTarget)
        Select(overlapping) ==
            Merge(sourceSSTables \o overlapping,
                  SelectSeq(targetSSTables,
                            LAMBDA t : \A i \in 1..Len(overlapping) : overlapping[i] # t))
    IN  IF SourceIsEmpty(sourceSSTables)
        THEN [success |-> FALSE, threw |-> FALSE, levels |-> lv, nextId |-> id,
              sourceLevel |-> sourceLevel, targetLevel |-> targetLevel,
              inputSSTables |-> 0, outputEntries |-> <<>>,
              inputBytes |-> 0, outputBytes |-> 0, duplicatesRemoved |-> 0,
              stages |-> <<>>, inputIds |-> {}, outputId |-> 0]
        ELSE Select(FindOverlappingSSTables(sourceSSTables, targetSSTables))

CompactThreshold(level) ==
    CASE level = 0 -> 4
      [] level = 1 -> 10
      [] level = 2 -> 100
      [] OTHER -> DefaultCompactThreshold

ShouldCompact(lv, level) == Len(GetLevel(lv, level)) >= CompactThreshold(level)

\* a compaction whose record replaces the history instead of joining it
RecordCompactionOnly(c, r) ==
    [compactionHistory |->
         <<[id |-> c.totalCompactions, sourceLevel |-> r.sourceLevel,
            targetLevel |-> r.targetLevel, inputSSTables |-> r.inputSSTables,
            inputBytes |-> r.inputBytes, outputBytes |-> r.outputBytes,
            duplicatesRemoved |-> r.duplicatesRemoved]>>,
     totalCompactions |-> c.totalCompactions + 1,
     totalBytesCompacted |-> c.totalBytesCompacted + r.inputBytes]

\* what compactLevel records of a successful compaction r: the record pushed
\* on compactionHistory (its id is totalCompactions before the increment),
\* totalCompactions and totalBytesCompacted
RecordCompaction(c, r) ==
    [compactionHistory |->
         Append(c.compactionHistory,
                [id |-> c.totalCompactions, sourceLevel |-> r.sourceLevel,
                 targetLevel |-> r.targetLevel, inputSSTables |-> r.inputSSTables,
                 inputBytes |-> r.inputBytes, outputBytes |-> r.outputBytes,
                 duplicatesRemoved |-> r.duplicatesRemoved]),
     totalCompactions |-> c.totalCompactions + 1,
     totalBytesCompacted |-> c.totalBytesCompacted + r.inputBytes]

RECURSIVE RecordCompactions(_, _)
RecordCompactions(c, results) ==
    IF results = <<>> THEN c
    ELSE RecordCompactions(RecordCompaction(c, Head(results)), Tail(results))

\* getWriteAmplification(): totalBytesWritten, the sum of outputBytes over the history
RECURSIVE OutputBytesSum(_)
OutputBytesSum(history) ==
    IF history = <<>> THEN 0 ELSE Head(history).outputBytes + OutputBytesSum(Tail(history))

\* clearHistory()
ClearHistory == [compactionHistory |-> <<>>, totalCompactions |-> 0, totalBytesCompacted |-> 0]

\* runAutoCompaction: levels 0, 1, 2 in turn; a throwing compaction ends the
\* loop; results holds what the successful compactions returned
RECURSIVE RunAutoCompaction(_, _, _, _)
RunAutoCompaction(lv, id, level, results) ==
    IF level >= AutoLevels
    THEN [threw |-> FALSE, levels |-> lv, nextId |-> id, results |-> results]
    ELSE IF ShouldCompact(lv, level)
    THEN LET Continue(r) ==
                 IF r.threw
                 THEN [threw |-> TRUE, levels |-> lv, nextId |-> id, results |-> results]
                 ELSE RunAutoCompaction(r.levels, r.nextId, level + 1,
                                        IF r.success THEN Append(results, r) ELSE results)
         IN  Continue(CompactLevel(lv, id, level, level + 1))
    ELSE RunAutoCompaction(lv, id, level + 1, results)

----------------------------------------------------------------------------
(* LSMTree (LSMTree.js) *)

\* get(key): the memtable first, then the SSTables; the result's found flag,
\* value, location, search path (the memtable step, then one step per table)
\* and sstablesChecked, a field the result of a memtable hit does not have
LSMGet(mem, lv, key) ==
    LET MemStep(m) ==
            [level |-> -1, sstableId |-> 0, found |-> m.found, bloomFilterSaved |-> FALSE]
        OnDisk(m, r) ==
            [found |-> r.found, value |-> IF r.found THEN r.value ELSE Null,
             location |-> IF r.found THEN "SSTable" ELSE "Not Found",
             searchPath |-> <<MemStep(m)>> \o r.searchPath,
             sstablesChecked |-> r.sstablesChecked]
        InMemory(m) ==
            IF m.found
            THEN [found |-> TRUE, value |-> m.value, location |-> "Memtable",
                  searchPath |-> <<MemStep(m)>>, sstablesChecked |-> Undefined]
            ELSE OnDisk(m, SSTableManagerSearch(lv, key))
    IN  InMemory(SkipListSearch(mem, key))

\* a flush that leaves the tombstones out of the table it writes
FlushMemtableLiveOnly(mem, lv, id) ==
    IF SkipListIsEmpty(mem)
    THEN [flushed |-> FALSE, memtable |-> mem, levels |-> lv, nextId |-> id]
    ELSE [flushed |-> TRUE, memtable |-> <<>>,
          levels |-> CreateSSTable(lv, id, 0, SelectSeq(mem, LAMBDA r : r.value # Null)),
          nextId |-> id + 1]

\* flushMemtable(): null (nothing done) on an empty memtable, else the
\* memtable's entries become a new table at level 0 and the memtable is cleared
FlushMemtable(mem, lv, id) ==
    IF SkipListIsEmpty(mem)
    THEN [flushed |-> FALSE, memtable |-> mem, levels |-> lv, nextId |-> id]
    ELSE [flushed |-> TRUE, memtable |-> <<>>,
          levels |-> CreateSSTable(lv, id, 0, SkipListGetAllEntries(mem)),
          nextId |-> id + 1]

\* a flush that waits until the memtable has grown past the threshold
FlushIfOverfull(mem, lv, id, limit) ==
    IF SkipListSize(mem) > limit
    THEN FlushMemtable(mem, lv, id)
    ELSE [flushed |-> FALSE, memtable |-> mem, levels |-> lv, nextId |-> id]

\* put and delete, step 2: flush when the memtable has reached the threshold
FlushIfFull(mem, lv, id, limit) ==
    IF SkipListSize(mem) >= limit
    THEN FlushMemtable(mem, lv, id)
    ELSE [flushed |-> FALSE, memtable |-> mem, levels |-> lv, nextId |-> id]

NoWrite == [kind |-> "none", value |-> Null]

\* the events of on(event, callback), and what a registered callback does
\* when the engine calls it
Events == {"onMemtableInsert", "onMemtableFlush", "onCompaction", "onRead"}
Behaviours == {"returns", "throws"}

\* constructor: every callback null
NoCallbacks == [ev \in Events |-> "null"]

\* constructor and clear(): every counter 0
NoStats ==
    [totalWrites |-> 0, totalReads |-> 0, totalDeletes |-> 0, memtableFlushes |-> 0,
     totalCompactions |-> 0, bloomFilterHits |-> 0, bloomFilterMisses |-> 0]

\* the engine's fields, as one value
Engine ==
    [memtable |-> memtable, memtableLevel |-> memtableLevel, threshold |-> threshold,
     levels |-> levels, nextId |-> nextId, stats |-> stats, compaction |-> compaction,
     callbacks |-> callbacks]

\* if (this.callbacks[ev]) this.callbacks[ev](...): the exception of a
\* throwing callback leaves the method that called it
Notify(e, ev) == IF e.callbacks[ev] = "throws" THEN "observer" ELSE "none"

\* the same call, as a delivery: nothing when no callback is registered, else
\* the event with the engine as the callback finds it
Emit(e, ev, seen) ==
    IF e.callbacks[ev] = "null" THEN <<>> ELSE <<[event |-> ev, seen |-> seen]>>

\* what a call leaves and how it ends: raised is "none" when it returns, else
\* the exception that left it (an observer's, or the TypeError of kWayMerge)
Outcome(e, flushed, results, success, raised, events) ==
    [engine |-> e, flushed |-> flushed, results |-> results, success |-> success,
     raised |-> raised, events |-> events]

\* memtable.insert(key, value): a new node takes the level randomLevel() drew
\* and raises the list's height to it; an update leaves the height
MemtableInsert(e, key, value, newLevel) ==
    [e EXCEPT !.memtable = SkipListInsert(@, key, value),
              !.memtableLevel = IF SkipListSearch(e.memtable, key).found \/ newLevel <= @
                                THEN @ ELSE newLevel]

\* a flush that calls onMemtableFlush before it touches the engine
ApplyFlushNotifyFirst(e, f) ==
    IF ~f.flushed
    THEN [engine |-> e, flushed |-> FALSE, raised |-> "none", events |-> <<>>]
    ELSE [engine |-> [e EXCEPT !.memtable = f.memtable, !.memtableLevel = 0,
                               !.levels = f.levels, !.nextId = f.nextId,
                               !.stats.memtableFlushes = @ + 1],
          flushed |-> TRUE,
          raised |-> Notify(e, "onMemtableFlush"),
          events |-> Emit(e, "onMemtableFlush", e)]

\* flushMemtable() on the engine: f is what FlushMemtable computed; the
\* memtable is cleared (height 0), memtableFlushes counted, onMemtableFlush called
ApplyFlush(e, f) ==
    IF ~f.flushed
    THEN [engine |-> e, flushed |-> FALSE, raised |-> "none", events |-> <<>>]
    ELSE LET Flushed(e1) ==
                 [engine |-> e1, flushed |-> TRUE,
                  raised |-> Notify(e, "onMemtableFlush"),
                  events |-> Emit(e, "onMemtableFlush", e1)]
         IN  Flushed([e EXCEPT !.memtable = f.memtable, !.memtableLevel = 0,
                               !.levels = f.levels, !.nextId = f.nextId,
                               !.stats.memtableFlushes = @ + 1])

LSMFlushMemtable(e) == ApplyFlush(e, FlushMemtable(e.memtable, e.levels, e.nextId))

\* put, step 3: runAutoCompaction(), then totalCompactions and onCompaction
\* when something was compacted
LSMAutoCompact(e, flushed, events) ==
    LET Told(e3, a) ==
            Outcome(e3, flushed, a.results,
                    Notify(e, "onCompaction") = "none", Notify(e, "onCompaction"),
                    events \o Emit(e, "onCompaction", e3))
        Counted(e2, a) ==
            IF a.threw THEN Outcome(e2, flushed, a.results, FALSE, "TypeError", events)
            ELSE IF Len(a.results) > 0
            THEN Told([e2 EXCEPT !.stats.totalCompactions = @ + Len(a.results)], a)
            ELSE Outcome(e2, flushed, a.results, TRUE, "none", events)
        Ran(a) ==
            Counted([e EXCEPT !.levels = a.levels, !.nextId = a.nextId,
                              !.compaction = RecordCompactions(@, a.results)], a)
    IN  Ran(RunAutoCompaction(e.levels, e.nextId, 0, <<>>))

\* put(key, value): insert, count, onMemtableInsert, flush if full, auto-compaction
LSMPut(e, key, value, newLevel) ==
    LET Flushed(e1, x) ==
            IF x.raised # "none"
            THEN Outcome(x.engine, x.flushed, <<>>, FALSE, x.raised,
                         Emit(e, "onMemtableInsert", e1) \o x.events)
            ELSE LSMAutoCompact(x.engine, x.flushed,
                                Emit(e, "onMemtableInsert", e1) \o x.events)
        Inserted(e1) ==
            IF Notify(e, "onMemtableInsert") # "none"
            THEN Outcome(e1, FALSE, <<>>, FALSE, "observer", Emit(e, "onMemtableInsert", e1))
            ELSE Flushed(e1, ApplyFlush(e1, FlushIfFull(e1.memtable, e1.levels, e1.nextId,
                                                        e1.threshold)))
    IN  Inserted([MemtableInsert(e, key, value, newLevel)
                     EXCEPT !.stats.totalWrites = @ + 1])

\* delete(key): insert the tombstone, count, onMemtableInsert, flush if full
LSMDelete(e, key, newLevel) ==
    LET Flushed(e1, x) ==
            Outcome(x.engine, x.flushed, <<>>, x.raised = "none", x.raised,
                    Emit(e, "onMemtableInsert", e1) \o x.events)
        Inserted(e1) ==
            IF Notify(e, "onMemtableInsert") # "none"
            THEN Outcome(e1, FALSE, <<>>, FALSE, "observer", Emit(e, "onMemtableInsert", e1))
            ELSE Flushed(e1, ApplyFlush(e1, FlushIfFull(e1.memtable, e1.levels, e1.nextId,
                                                        e1.threshold)))
    IN  Inserted([MemtableInsert(e, key, Null, newLevel)
                     EXCEPT !.stats.totalDeletes = @ + 1])

\* get(key), the bloom-filter accounting over the SSTable steps of the path
BloomHits(searchPath) ==
    Cardinality({i \in 1..Len(searchPath) :
                    searchPath[i].level >= 0 /\ searchPath[i].bloomFilterSaved})

BloomMisses(searchPath) ==
    Cardinality({i \in 1..Len(searchPath) :
                    /\ searchPath[i].level >= 0
                    /\ ~searchPath[i].bloomFilterSaved /\ ~searchPath[i].found})

\* a get that moves the record it found in a table into the memtable
LSMGetCallCaching(e, key) ==
    LET Told(r, e1) ==
            [engine |-> e1, found |-> r.found, value |-> r.value,
             searchPath |-> r.searchPath, sstablesChecked |-> r.sstablesChecked, raised |-> Notify(e, "onRead"),
             events |-> Emit(e, "onRead", e1)]
        Answered(r) ==
            Told(r, [e EXCEPT !.stats.totalReads = @ + 1,
                              !.stats.bloomFilterHits = @ + BloomHits(r.searchPath),
                              !.stats.bloomFilterMisses = @ + BloomMisses(r.searchPath),
                              !.memtable = IF r.found /\ r.location = "SSTable"
                                           THEN SkipListInsert(@, key, r.value) ELSE @])
    IN  Answered(LSMGet(e.memtable, e.levels, key))

\* get(key) on the engine: totalReads and the bloom counters, then onRead
LSMGetCall(e, key) ==
    LET Told(r, e1) ==
            [engine |-> e1, found |-> r.found, value |-> r.value,
             searchPath |-> r.searchPath, sstablesChecked |-> r.sstablesChecked, raised |-> Notify(e, "onRead"),
             events |-> Emit(e, "onRead", e1)]
        Answered(r) ==
            Told(r, [e EXCEPT !.stats.totalReads = @ + 1,
                              !.stats.bloomFilterHits = @ + BloomHits(r.searchPath),
                              !.stats.bloomFilterMisses = @ + BloomMisses(r.searchPath)])
    IN  Answered(LSMGet(e.memtable, e.levels, key))

\* a compact that calls onCompaction once the source level is cleared, before
\* the output table is created
LSMCompactNotifyEarly(e, sourceLevel, targetLevel) ==
    LET Told(r, e1) ==
            Outcome(e1, FALSE, <<r>>, TRUE, Notify(e, "onCompaction"),
                    Emit(e, "onCompaction", [e1 EXCEPT !.levels = r.stages[1]]))
        Done(r) ==
            IF r.threw THEN Outcome(e, FALSE, <<r>>, FALSE, "TypeError", <<>>)
            ELSE IF ~r.success THEN Outcome(e, FALSE, <<r>>, FALSE, "none", <<>>)
            ELSE Told(r, [e EXCEPT !.levels = r.levels, !.nextId = r.nextId,
                                   !.compaction = RecordCompaction(@, r),
                                   !.stats.totalCompactions = @ + 1])
    IN  Done(CompactLevel(e.levels, e.nextId, sourceLevel, targetLevel))

\* compact(sourceLevel, targetLevel): compactLevel, then totalCompactions and
\* onCompaction when it succeeded
LSMCompact(e, sourceLevel, targetLevel) ==
    LET Told(r, e1) ==
            Outcome(e1, FALSE, <<r>>, TRUE, Notify(e, "onCompaction"),
                    Emit(e, "onCompaction", e1))
        Done(r) ==
            IF r.threw THEN Outcome(e, FALSE, <<r>>, FALSE, "TypeError", <<>>)
            ELSE IF ~r.success THEN Outcome(e, FALSE, <<r>>, FALSE, "none", <<>>)
            ELSE Told(r, [e EXCEPT !.levels = r.levels, !.nextId = r.nextId,
                                   !.compaction = RecordCompaction(@, r),
                                   !.stats.totalCompactions = @ + 1])
    IN  Done(CompactLevel(e.levels, e.nextId, sourceLevel, targetLevel))

\* a clear that leaves the compaction history and its counters
LSMClearKeepHistory(e) ==
    [e EXCEPT !.memtable = <<>>, !.memtableLevel = 0,
              !.levels = [l \in Levels |-> <<>>], !.nextId = 1,
              !.stats = NoStats]

\* clear(): memtable.clear(), sstableManager.clear(), clearHistory(), stats
LSMClear(e) ==
    [e EXCEPT !.memtable = <<>>, !.memtableLevel = 0,
              !.levels = [l \in Levels |-> <<>>], !.nextId = 1,
              !.compaction = ClearHistory, !.stats = NoStats]

\* on(event, callback)
LSMOn(e, ev, callback) == [e EXCEPT !.callbacks[ev] = callback]

\* the engine after a step; a step that recorded a compaction notes the
\* output-bytes sum it left
Install(e) ==
    /\ lastCompacted' = IF e.compaction.totalCompactions > compaction.totalCompactions
                        THEN OutputBytesSum(e.compaction.compactionHistory)
                        ELSE lastCompacted
    /\ memtable' = e.memtable
    /\ memtableLevel' = e.memtableLevel
    /\ threshold' = e.threshold
    /\ levels' = e.levels
    /\ nextId' = e.nextId
    /\ stats' = e.stats
    /\ compaction' = e.compaction
    /\ callbacks' = e.callbacks
    /\ UNCHANGED <<skiplist, reference>>

\* all tables of the level map, as a set
AllTables == UNION {{levels[l][i] : i \in 1..Len(levels[l])} : l \in Levels}

\* what a call was and what it returned: the source level (compact), whether
\* it flushed, the levels its auto-compaction compacted, duplicatesRemoved
\* (compact), its success flag (found, for get), whether it threw and what;
\* for clear, tablesCleared is the number of tables the engine held; events
\* are the callbacks called, in order, each with the engine as it found it;
\* for get, the search path and sstablesChecked of the result; for a table's
\* get and scan, the key (startKey) and endKey asked for, the value and the
\* records returned; merges are the compactions the call carried out
OpRecord(op, level, flushed, compacted, duplicatesRemoved, success, raised) ==
    [op |-> op, level |-> level, flushed |-> flushed, compacted |-> compacted,
     duplicatesRemoved |-> duplicatesRemoved, success |-> success,
     threw |-> raised # "none", raised |-> raised, tablesCleared |-> 0,
     events |-> <<>>, searchPath |-> <<>>, sstablesChecked |-> 0,
     key |-> NullKey, endKey |-> NullKey, value |-> Null, scanned |-> <<>>,
     merges |-> <<>>, operation |-> "none", drawn |-> -1,
     height |-> -1, command |-> <<>>, printed |-> "none"]

\* the compactions in results that were carried out: the ids of the tables
\* merged, the id of the table written and the level maps passed through
Merges(results) ==
    LET Done(done) ==
            [i \in 1..Len(done) |->
                [inputIds |-> done[i].inputIds, outputId |-> done[i].outputId,
                 stages |-> done[i].stages]]
    IN  Done(SelectSeq(results, LAMBDA r : r.success))

\* the source levels of the compactions in results
SourceLevels(results) == [i \in 1..Len(results) |-> results[i].sourceLevel]

\* operations.total of getStats(): writes + reads + deletes
OperationsTotal == stats.totalWrites + stats.totalReads + stats.totalDeletes

Init ==
    /\ memtable = <<>>
    /\ memtableLevel = 0
    /\ threshold \in 1..MaxThreshold
    /\ levels = [l \in Levels |-> <<>>]
    /\ nextId = 1
    /\ stats = NoStats
    /\ compaction = ClearHistory
    /\ callbacks = NoCallbacks
    /\ lastWrite = [k \in AllKeys |-> NoWrite]
    /\ lastCompacted = 0
    /\ lastOp = OpRecord("init", -1, FALSE, <<>>, 0, TRUE, "none")
    /\ skiplist = NewSkipList(ListMaxLevel)
    /\ reference = [k \in ListKeys |-> Undefined]

\* put(key, value); newLevel is what randomLevel() draws if it is called
Put(key, value, newLevel) ==
    /\ LET Done(o) ==
               /\ Install(o.engine)
               /\ lastOp' = [OpRecord("put", -1, o.flushed, SourceLevels(o.results), 0,
                                      o.success, o.raised)
                                 EXCEPT !.events = o.events, !.key = key, !.value = value,
                                        !.merges = Merges(o.results)]
       IN  Done(LSMPut(Engine, key, value, newLevel))
    /\ lastWrite' = [lastWrite EXCEPT ![key] = [kind |-> "put", value |-> value]]

\* delete(key)
Delete(key, newLevel) ==
    /\ LET Done(o) ==
               /\ Install(o.engine)
               /\ lastOp' = [OpRecord("delete", -1, o.flushed, <<>>, 0, o.success, o.raised)
                                 EXCEPT !.events = o.events, !.key = key]
       IN  Done(LSMDelete(Engine, key, newLevel))
    /\ lastWrite' = [lastWrite EXCEPT ![key] = [kind |-> "delete", value |-> Null]]

\* get(key)
Get(key) ==
    /\ LET Done(g) ==
               /\ Install(g.engine)
               /\ lastOp' = [OpRecord("get", -1, FALSE, <<>>, 0, g.found, g.raised)
                                 EXCEPT !.events = g.events, !.searchPath = g.searchPath,
                                        !.sstablesChecked = g.sstablesChecked,
                                        !.key = key]
       IN  Done(LSMGetCall(Engine, key))
    /\ UNCHANGED lastWrite

\* flushMemtable() called directly
Flush ==
    /\ LET Done(x) ==
               /\ Install(x.engine)
               /\ lastOp' = [OpRecord("flush", -1, x.flushed, <<>>, 0, x.raised = "none",
                                      x.raised) EXCEPT !.events = x.events]
       IN  Done(LSMFlushMemtable(Engine))
    /\ UNCHANGED lastWrite

\* compact(sourceLevel, sourceLevel + 1), the manual trigger
Compact(sourceLevel) ==
    /\ LET Done(o) ==
               /\ Install(o.engine)
               /\ lastOp' = [OpRecord("compact", sourceLevel, FALSE, <<>>,
                                      o.results[1].duplicatesRemoved, o.results[1].success,
                                      o.raised)
                                 EXCEPT !.events = o.events, !.merges = Merges(o.results)]
       IN  Done(LSMCompact(Engine, sourceLevel, sourceLevel + 1))
    /\ UNCHANGED lastWrite

\* clear(); the caller's writes are forgotten with the data
Clear ==
    /\ Install(LSMClear(Engine))
    /\ lastOp' = [OpRecord("clear", -1, FALSE, <<>>, 0, TRUE, "none")
                     EXCEPT !.tablesCleared = Cardinality(AllTables)]
    /\ lastWrite' = [k \in AllKeys |-> NoWrite]

\* on(event, callback) with a callback that returns or one that throws
On(ev, callback) ==
    /\ Install(LSMOn(Engine, ev, callback))
    /\ lastOp' = OpRecord("on", -1, FALSE, <<>>, 0, TRUE, "none")
    /\ UNCHANGED lastWrite

Next ==
    \/ \E k \in Keys, v \in Values, n \in NodeLevels :
           nextId <= MaxId /\ OperationsTotal < MaxOps /\ Put(k, v, n)
    \/ \E k \in Keys, n \in NodeLevels :
           nextId <= MaxId /\ OperationsTotal < MaxOps /\ Delete(k, n)
    \/ \E k \in Keys : OperationsTotal < MaxOps /\ Get(k)
    \/ nextId <= MaxId /\ Flush
    \/ \E l \in 0..(MaxLevel - 1) : nextId <= MaxId /\ Compact(l)
    \/ Clear

Spec == Init /\ [][Next]_vars

\* the engine built with threshold 1 and driven deeper with a single value
InitDeep ==
    /\ Init
    /\ threshold = 1

NextDeep ==
    \/ \E k \in DeepKeys, v \in DeepValues, n \in NodeLevels :
           nextId <= MaxDeepId /\ OperationsTotal < MaxOps /\ Put(k, v, n)
    \/ \E k \in DeepKeys, n \in NodeLevels :
           nextId <= MaxDeepId /\ OperationsTotal < MaxOps /\ Delete(k, n)
    \/ \E k \in DeepKeys : OperationsTotal < MaxOps /\ Get(k)
    \/ nextId <= MaxDeepId /\ Flush
    \/ \E l \in 0..(MaxLevel - 1) : nextId <= MaxDeepId /\ Compact(l)
    \/ Clear

SpecDeep == InitDeep /\ [][NextDeep]_vars

\* the same engine with the four observers of main.js registered from the start
InitWatched ==
    /\ memtable = <<>>
    /\ memtableLevel = 0
    /\ threshold = 1
    /\ levels = [l \in Levels |-> <<>>]
    /\ nextId = 1
    /\ stats = NoStats
    /\ compaction = ClearHistory
    /\ callbacks = [ev \in Events |-> "returns"]
    /\ lastWrite = [k \in AllKeys |-> NoWrite]
    /\ lastCompacted = 0
    /\ lastOp = OpRecord("init", -1, FALSE, <<>>, 0, TRUE, "none")
    /\ skiplist = NewSkipList(ListMaxLevel)
    /\ reference = [k \in ListKeys |-> Undefined]

SpecWatched == InitWatched /\ [][NextDeep]_vars

\* the engine with observers: callbacks are registered, some of them throw
InitHooks ==
    /\ memtable = <<>>
    /\ memtableLevel = 0
    /\ threshold \in 1..MaxHookThreshold
    /\ levels = [l \in Levels |-> <<>>]
    /\ nextId = 1
    /\ stats = NoStats
    /\ compaction = ClearHistory
    /\ callbacks = NoCallbacks
    /\ lastWrite = [k \in AllKeys |-> NoWrite]
    /\ lastCompacted = 0
    /\ lastOp = OpRecord("init", -1, FALSE, <<>>, 0, TRUE, "none")
    /\ skiplist = NewSkipList(ListMaxLevel)
    /\ reference = [k \in ListKeys |-> Undefined]

NextHooks ==
    \/ \E k \in HookKeys, v \in HookValues, n \in NodeLevels :
           nextId <= MaxHookId /\ OperationsTotal < MaxHookOps /\ Put(k, v, n)
    \/ \E k \in HookKeys, n \in NodeLevels :
           nextId <= MaxHookId /\ OperationsTotal < MaxHookOps /\ Delete(k, n)
    \/ \E k \in HookKeys : OperationsTotal < MaxHookOps /\ Get(k)
    \/ nextId <= MaxHookId /\ Flush
    \/ \E l \in 0..(MaxLevel - 1) : nextId <= MaxHookId /\ Compact(l)
    \/ Clear
    \/ \E ev \in Events, cb \in Behaviours : On(ev, cb)

SpecHooks == InitHooks /\ [][NextHooks]_vars

\* the engine built with threshold 1 and driven with the empty string among the keys
NextEdge ==
    \/ \E k \in EdgeKeys, v \in DeepValues, n \in NodeLevels :
           nextId <= MaxDeepId /\ OperationsTotal < MaxOps /\ Put(k, v, n)
    \/ \E k \in EdgeKeys, n \in NodeLevels :
           nextId <= MaxDeepId /\ OperationsTotal < MaxOps /\ Delete(k, n)
    \/ \E k \in EdgeKeys : OperationsTotal < MaxOps /\ Get(k)
    \/ nextId <= MaxDeepId /\ Flush
    \/ \E l \in 0..(MaxLevel - 1) : nextId <= MaxDeepId /\ Compact(l)
    \/ Clear

SpecEdge == InitDeep /\ [][NextEdge]_vars

\* a single SSTable, built from records handed over in descending key order,
\* and asked with get and scan
TableEntries(n, first) ==
    [i \in 1..n |-> [key |-> <<first + 2 * (n - i)>>, value |-> first + 2 * (n - i) - FirstUnit]]

\* sstableManager.createSSTable(0, entries) on an engine without tables
NewTable(n, first) ==
    /\ AllTables = {}
    /\ levels' = CreateSSTable(levels, nextId, 0, TableEntries(n, first))
    /\ nextId' = nextId + 1
    /\ lastOp' = OpRecord("createSSTable", 0, FALSE, <<>>, 0, TRUE, "none")
    /\ UNCHANGED <<memtable, memtableLevel, threshold, stats, compaction, callbacks,
                   lastWrite, lastCompacted, skiplist, reference>>

\* sstable.get(key) on the table built
TableGet(key) ==
    /\ AllTables # {}
    /\ LET Done(r) ==
               lastOp' = [OpRecord("sstable.get", 0, FALSE, <<>>, 0, r.found, "none")
                             EXCEPT !.key = key, !.value = r.value]
       IN  Done(SSTableGet(levels[0][1], key))
    /\ UNCHANGED <<memtable, memtableLevel, threshold, levels, nextId, stats, compaction,
                   callbacks, lastWrite, lastCompacted, skiplist, reference>>

\* sstable.scan(startKey, endKey) on the table built
TableScan(startKey, endKey) ==
    /\ AllTables # {}
    /\ lastOp' = [OpRecord("sstable.scan", 0, FALSE, <<>>, 0, TRUE, "none")
                     EXCEPT !.key = startKey, !.endKey = endKey,
                            !.scanned = SSTableScan(levels[0][1], startKey, endKey)]
    /\ UNCHANGED <<memtable, memtableLevel, threshold, levels, nextId, stats, compaction,
                   callbacks, lastWrite, lastCompacted, skiplist, reference>>

NextTable ==
    \/ \E n \in 1..MaxTableLen, first \in {FirstUnit + 1, FirstUnit + 2} : NewTable(n, first)
    \/ \E k \in TableKeys : TableGet(k)
    \/ \E lo \in ScanBounds, hi \in ScanBounds : TableScan(lo, hi)

SpecTable == InitDeep /\ [][NextTable]_vars

\* new LSMTree(1)
NewEngine ==
    [memtable |-> <<>>, memtableLevel |-> 0, threshold |-> 1,
     levels |-> [l \in Levels |-> <<>>], nextId |-> 1, stats |-> NoStats,
     compaction |-> ClearHistory, callbacks |-> NoCallbacks]

\* the engine after n rounds of delete(key); compact(0, 1): each round flushes
\* the tombstone to level 0 and merges it into one more table of level 1
RECURSIVE Aged(_, _, _)
Aged(e, key, n) ==
    IF n = 0 THEN e
    ELSE Aged(LSMCompact(LSMDelete(e, key, 0).engine, 0, 1).engine, key, n - 1)

\* rounds that leave level 1 one table short of its auto-compaction threshold
AgedRounds == CompactThreshold(1) - 1

\* new LSMTree(1) after AgedRounds rounds of delete('a'); compact(0, 1)
InitLong ==
    LET Start(e) ==
            /\ memtable = e.memtable
            /\ memtableLevel = e.memtableLevel
            /\ threshold = e.threshold
            /\ levels = e.levels
            /\ nextId = e.nextId
            /\ stats = e.stats
            /\ compaction = e.compaction
            /\ callbacks = e.callbacks
            /\ lastCompacted = OutputBytesSum(e.compaction.compactionHistory)
    IN  /\ Start(Aged(NewEngine, KeyOf(1), AgedRounds))
        /\ lastWrite = [k \in AllKeys |->
                            IF k = KeyOf(1) THEN [kind |-> "delete", value |-> Null] ELSE NoWrite]
        /\ lastOp = OpRecord("init", -1, FALSE, <<>>, 0, TRUE, "none")
        /\ skiplist = NewSkipList(ListMaxLevel)
        /\ reference = [k \in ListKeys |-> Undefined]

\* that engine, driven on until level 1 reaches the threshold
NextLong ==
    \/ \E k \in Keys, n \in NodeLevels :
           nextId <= MaxLongId /\ OperationsTotal < MaxLongOps /\ Put(k, 1, n)
    \/ \E k \in Keys, n \in NodeLevels :
           nextId <= MaxLongId /\ OperationsTotal < MaxLongOps /\ Delete(k, n)
    \/ \E k \in Keys : OperationsTotal < MaxLongOps /\ Get(k)
    \/ \E l \in 0..1 : nextId <= MaxLongId /\ Compact(l)

SpecLong == InitLong /\ [][NextLong]_vars

----------------------------------------------------------------------------
(* A SkipList on its own, driven through insert, delete and clear, beside    *)
(* the ordered map the same calls describe.                                  *)

\* list.insert(key, value); newLevel is what randomLevel() draws if it is called
ListInsertStep(key, value, newLevel) ==
    /\ LET Done(r) ==
               /\ skiplist' = r.list
               /\ lastOp' = [OpRecord("list.insert", r.level, FALSE, <<>>, 0, TRUE, "none")
                                 EXCEPT !.key = key, !.value = value, !.operation = r.operation,
                                        !.drawn = newLevel, !.height = skiplist.level]
       IN  Done(ListInsert(skiplist, key, value, newLevel))
    /\ reference' = [reference EXCEPT ![key] = value]
    /\ UNCHANGED <<memtable, memtableLevel, threshold, levels, nextId, stats, compaction,
                   callbacks, lastWrite, lastCompacted>>

\* list.delete(key)
ListDeleteStep(key) ==
    /\ LET Done(r) ==
               /\ skiplist' = r.list
               /\ lastOp' = [OpRecord("list.delete", -1, FALSE, <<>>, 0, r.success, "none")
                                 EXCEPT !.key = key, !.height = skiplist.level]
       IN  Done(ListDelete(skiplist, key))
    /\ reference' = [reference EXCEPT ![key] = Undefined]
    /\ UNCHANGED <<memtable, memtableLevel, threshold, levels, nextId, stats, compaction,
                   callbacks, lastWrite, lastCompacted>>

\* list.clear()
ListClearStep ==
    /\ skiplist' = ListClear(skiplist)
    /\ lastOp' = OpRecord("list.clear", -1, FALSE, <<>>, 0, TRUE, "none")
    /\ reference' = [k \in ListKeys |-> Undefined]
    /\ UNCHANGED <<memtable, memtableLevel, threshold, levels, nextId, stats, compaction,
                   callbacks, lastWrite, lastCompacted>>

NextSkipList ==
    \/ \E k \in ListKeys, v \in ListValues, n \in 0..ListMaxLevel : ListInsertStep(k, v, n)
    \/ \E k \in ListKeys : ListDeleteStep(k)
    \/ ListClearStep

SpecSkipList == InitDeep /\ [][NextSkipList]_vars

----------------------------------------------------------------------------
(* Terminal (LSMTree.js): a command line is split into tokens, a token is    *)
(* the sequence of its character codes, as a key is.                         *)

TokPUT == <<80, 85, 84>>
TokPutLower == <<112, 117, 116>>
TokGET == <<71, 69, 84>>
TokDELETE == <<68, 69, 76, 69, 84, 69>>
TokCOMPACT == <<67, 79, 77, 80, 65, 67, 84>>
TokSTATS == <<83, 84, 65, 84, 83>>
TokHELP == <<72, 69, 76, 80>>
TokCLEAR == <<67, 76, 69, 65, 82>>
TokUnknown == <<70, 79, 79>>                  \* "FOO"
TokNull == <<110, 117, 108, 108>>             \* "null"
TokOne == <<49>>                              \* "1"

\* the level tokens: "0", "1", "1.5", "2x", "-1", "x"
LevelTokens ==
    {<<48>>, <<49>>, <<49, 46, 53>>, <<50, 120>>, <<45, 49>>, <<120>>}

ValueTokens == {TokOne, TokNull}

\* cmd.toUpperCase()
ToUpperCase(tok) == [p \in 1..Len(tok) |-> IF tok[p] \in 97..122 THEN tok[p] - 32 ELSE tok[p]]

\* the value of a digit character in a radix, -1 if it is none
DigitValue(c, radix) ==
    IF c \in 48..57 /\ c - 48 < radix THEN c - 48
    ELSE IF radix = 16 /\ c \in 97..102 THEN c - 87
    ELSE IF radix = 16 /\ c \in 65..70 THEN c - 55
    ELSE -1

\* the number read from the longest prefix of digits of the radix
RECURSIVE ParseDigits(_, _, _, _)
ParseDigits(tok, radix, acc, seen) ==
    IF tok = <<>> \/ DigitValue(Head(tok), radix) < 0
    THEN [nan |-> ~seen, value |-> acc]
    ELSE ParseDigits(Tail(tok), radix, acc * radix + DigitValue(Head(tok), radix), TRUE)

\* parseInt(tok): an optional sign, a 0x prefix for radix 16, then the longest
\* prefix of digits; NaN when there is no digit.  What follows is ignored.
ParseInt(tok) ==
    LET Signed(sign, rest) ==
            LET Read(r) == [nan |-> r.nan, value |-> sign * r.value]
            IN  IF Len(rest) >= 2 /\ rest[1] = 48 /\ rest[2] \in {120, 88}
                THEN Read(ParseDigits(SubSeq(rest, 3, Len(rest)), 16, 0, FALSE))
                ELSE Read(ParseDigits(rest, 10, 0, FALSE))
    IN  IF tok # <<>> /\ tok[1] = 45 THEN Signed(-1, Tail(tok))
        ELSE IF tok # <<>> /\ tok[1] = 43 THEN Signed(1, Tail(tok))
        ELSE Signed(1, tok)

\* parts.slice(2).join(' ')
RECURSIVE Join(_)
Join(toks) ==
    IF toks = <<>> THEN <<>>
    ELSE IF Len(toks) = 1 THEN toks[1]
    ELSE toks[1] \o <<32>> \o Join(Tail(toks))

\* try { JSON.parse(value) } catch { value }: the text null is null, the text
\* of a positive integer is that number, a text that is no JSON stays a string
JsonParse(text) ==
    LET Number(r) ==
            IF text # <<>> /\ text[1] \in 49..57 /\ \A p \in 1..Len(text) : text[p] \in 48..57
            THEN r.value
            ELSE text
    IN  IF text = TokNull THEN Null ELSE Number(ParseDigits(text, 10, 0, FALSE))

\* printError(message), reached without a call on the engine
PrintError(parts) ==
    /\ lastOp' = [OpRecord("terminal", -1, FALSE, <<>>, 0, FALSE, "none")
                     EXCEPT !.command = parts, !.printed = "error"]
    /\ UNCHANGED <<memtable, memtableLevel, threshold, levels, nextId, stats, compaction,
                   callbacks, lastWrite, lastCompacted, skiplist, reference>>

\* what the terminal prints after a call on the engine: the catch of
\* executeCommand prints an error when the call threw
Printed(raised, kind) == IF raised # "none" THEN "error" ELSE kind

\* handlePut(parts)
HandlePut(parts, newLevel) ==
    IF Len(parts) < 3 THEN PrintError(parts)
    ELSE LET key == parts[2]
             parsedValue == JsonParse(Join(SubSeq(parts, 3, Len(parts))))
             Done(o) ==
                 /\ Install(o.engine)
                 /\ lastOp' = [OpRecord("put", -1, o.flushed, SourceLevels(o.results), 0,
                                        o.success, o.raised)
                                   EXCEPT !.events = o.events, !.key = key, !.value = parsedValue,
                                          !.merges = Merges(o.results), !.command = parts,
                                          !.printed = Printed(o.raised, "success")]
         IN  /\ Done(LSMPut(Engine, key, parsedValue, newLevel))
             /\ lastWrite' = [lastWrite EXCEPT ![key] = [kind |-> "put", value |-> parsedValue]]

\* handleGet(parts)
HandleGet(parts) ==
    IF Len(parts) < 2 THEN PrintError(parts)
    ELSE LET Done(g) ==
                 /\ Install(g.engine)
                 /\ lastOp' = [OpRecord("get", -1, FALSE, <<>>, 0, g.found, g.raised)
                                   EXCEPT !.events = g.events, !.key = parts[2],
                                          !.value = g.value, !.searchPath = g.searchPath,
                                          !.sstablesChecked = g.sstablesChecked,
                                          !.command = parts,
                                          !.printed = Printed(g.raised,
                                                IF g.found THEN "success" ELSE "warning")]
         IN  /\ Done(LSMGetCall(Engine, parts[2]))
             /\ UNCHANGED lastWrite

\* handleDelete(parts)
HandleDelete(parts, newLevel) ==
    IF Len(parts) < 2 THEN PrintError(parts)
    ELSE LET Done(o) ==
                 /\ Install(o.engine)
                 /\ lastOp' = [OpRecord("delete", -1, o.flushed, <<>>, 0, o.success, o.raised)
                                   EXCEPT !.events = o.events, !.key = parts[2],
                                          !.command = parts,
                                          !.printed = Printed(o.raised, "delete")]
         IN  /\ Done(LSMDelete(Engine, parts[2], newLevel))
             /\ lastWrite' = [lastWrite EXCEPT ![parts[2]] = [kind |-> "delete", value |-> Null]]

\* handleCompact(parts)
HandleCompact(parts) ==
    IF Len(parts) < 2 THEN PrintError(parts)
    ELSE LET Checked(sourceLevel) ==
                 IF sourceLevel.nan \/ sourceLevel.value < 0 THEN PrintError(parts)
                 ELSE LET Done(o) ==
                              /\ Install(o.engine)
                              /\ lastOp' = [OpRecord("compact", sourceLevel.value, FALSE, <<>>,
                                                     o.results[1].duplicatesRemoved,
                                                     o.results[1].success, o.raised)
                                                EXCEPT !.events = o.events,
                                                       !.merges = Merges(o.results),
                                                       !.command = parts,
                                                       !.printed =
                                                           IF o.results[1].success
                                                           THEN Printed(o.raised, "compaction")
                                                           ELSE "error"]
                      IN  /\ Done(LSMCompact(Engine, sourceLevel.value, sourceLevel.value + 1))
                          /\ UNCHANGED lastWrite
         IN  Checked(ParseInt(parts[2]))

\* handleStats() and handleHelp(): getStats() reads, both print
HandleInfo(parts, kind) ==
    /\ lastOp' = [OpRecord("terminal", -1, FALSE, <<>>, 0, TRUE, "none")
                     EXCEPT !.command = parts, !.printed = kind]
    /\ UNCHANGED <<memtable, memtableLevel, threshold, levels, nextId, stats, compaction,
                   callbacks, lastWrite, lastCompacted, skiplist, reference>>

\* handleClear()
HandleClear(parts) ==
    /\ Install(LSMClear(Engine))
    /\ lastOp' = [OpRecord("clear", -1, FALSE, <<>>, 0, TRUE, "none")
                     EXCEPT !.tablesCleared = Cardinality(AllTables), !.command = parts,
                            !.printed = "warning"]
    /\ lastWrite' = [k \in AllKeys |-> NoWrite]

\* executeCommand(command), command split into parts
ExecuteCommand(parts, newLevel) ==
    LET Dispatch(cmd) ==
            IF cmd = TokPUT THEN HandlePut(parts, newLevel)
            ELSE IF cmd = TokGET THEN HandleGet(parts)
            ELSE IF cmd = TokDELETE THEN HandleDelete(parts, newLevel)
            ELSE IF cmd = TokCOMPACT THEN HandleCompact(parts)
            ELSE IF cmd = TokSTATS THEN HandleInfo(parts, "stats")
            ELSE IF cmd = TokHELP THEN HandleInfo(parts, "help")
            ELSE IF cmd = TokCLEAR THEN HandleClear(parts)
            ELSE PrintError(parts)
    IN  Dispatch(ToUpperCase(parts[1]))

\* the command lines typed
CommandLines ==
    {<<v>> : v \in {TokPUT, TokGET, TokDELETE, TokCOMPACT, TokSTATS, TokHELP, TokCLEAR,
                     TokUnknown}}
    \cup {<<TokPUT, k>> : k \in TermKeys}
    \cup {<<v, k, t>> : v \in {TokPUT, TokPutLower}, k \in TermKeys, t \in ValueTokens}
    \cup {<<v, k>> : v \in {TokGET, TokDELETE, TokUnknown}, k \in TermKeys}
    \cup {<<TokCOMPACT, t>> : t \in LevelTokens}

NextTerminal ==
    \E parts \in CommandLines, n \in NodeLevels :
        /\ nextId <= MaxTermId
        /\ OperationsTotal < MaxTermOps
        /\ ExecuteCommand(parts, n)

SpecTerminal == InitWatched /\ [][NextTerminal]_vars

----------------------------------------------------------------------------
(* Properties *)

\* the part of get's result the caller reads: found flag and value
Answer(r) == [found |-> r.found, value |-> r.value]

\* what get(key) answers in the current state
GetNow(key) == Answer(LSMGet(memtable, levels, key))

\* what get(key) answers in the state a step leads to
GetNext(key) == Answer(LSMGet(memtable', levels', key))

HasKey(t, key) == \E i \in 1..Len(t.entries) : t.entries[i].key = key

\* C1: read-your-write / recency: whenever the last write to a key was
\* put(k, v) with a value v, get(k) answers found with v, whatever flushes and
\* compactions happened since
C1_ReadYourWrite ==
    \A k \in AllKeys :
        (lastWrite[k].kind = "put" /\ lastWrite[k].value # Null)
            => GetNow(k) = [found |-> TRUE, value |-> lastWrite[k].value]

\* C2: delete masks: whenever the last write to a key was delete(k), get(k)
\* answers a miss (found = FALSE)
C2_DeleteMasks ==
    \A k \in AllKeys : lastWrite[k].kind = "delete" => ~GetNow(k).found

\* C3: compaction equivalence: a successful compact(L, L+1) leaves the answer
\* of get (found flag and value) unchanged for every key
C3_CompactionEquivalence ==
    [][(lastOp'.op = "compact" /\ lastOp'.success)
          => \A k \in AllKeys : GetNext(k) = GetNow(k)]_vars

\* C4: flush equivalence: flushing a non-empty memtable into a new L0 table
\* leaves the answer of get (found flag and value) unchanged for every key
C4_FlushEquivalence ==
    [][(lastOp'.op = "flush" /\ lastOp'.flushed)
          => \A k \in AllKeys : GetNext(k) = GetNow(k)]_vars

\* the newest record for key among the tables a compaction of sourceLevel
\* merges: the source tables are newer than the target tables, and within a
\* level a table added later is newer
RECURSIVE NewestIn(_, _)
NewestIn(tables, key) ==
    IF tables = <<>> THEN [found |-> FALSE, value |-> Null]
    ELSE LET t == tables[Len(tables)]
             hit == {i \in 1..Len(t.entries) : t.entries[i].key = key}
         IN  IF hit # {}
             THEN [found |-> TRUE, value |-> t.entries[CHOOSE i \in hit : TRUE].value]
             ELSE NewestIn(SubSeq(tables, 1, Len(tables) - 1), key)

NewestInput(sourceLevel, key) ==
    LET source == levels[sourceLevel]
        target == FindOverlappingSSTables(source, levels[sourceLevel + 1])
    IN  NewestIn(target \o source, key)

HeldBelow(level, key) ==
    \E d \in Levels : d > level /\ \E i \in 1..Len(levels[d]) : HasKey(levels[d][i], key)

\* the table a successful compaction into targetLevel has just created
OutputTable(targetLevel) == levels'[targetLevel][Len(levels'[targetLevel])]

\* C5: tombstone retention: when a successful compact(L, L+1) runs while a
\* level deeper than L+1 holds a record for k and the newest input record for
\* k is a tombstone, the output table holds the tombstone for k and get(k)
\* does not answer a value afterwards
C5_TombstoneRetention ==
    [][\A k \in AllKeys :
          (/\ lastOp'.op = "compact" /\ lastOp'.success
           /\ HeldBelow(lastOp'.level + 1, k)
           /\ NewestInput(lastOp'.level, k) = [found |-> TRUE, value |-> Null])
          => (/\ \E i \in 1..Len(OutputTable(lastOp'.level + 1).entries) :
                    OutputTable(lastOp'.level + 1).entries[i] = [key |-> k, value |-> Null]
              /\ GetNext(k) \notin {[found |-> TRUE, value |-> v] : v \in Values})]_vars

\* ranges of two tables with entries have a key in common
TablesOverlap(t1, t2) ==
    /\ StrLeq(GetKeyRange(t1.entries).min, GetKeyRange(t2.entries).max)
    /\ StrLeq(GetKeyRange(t2.entries).min, GetKeyRange(t1.entries).max)

\* C6: range disjointness: at every level L >= 1 the tables (those with
\* entries; an empty table has no range) have pairwise disjoint [min, max]
C6_RangeDisjointness ==
    \A l \in 1..MaxLevel : \A i, j \in 1..Len(levels[l]) :
        (i < j /\ Len(levels[l][i].entries) > 0 /\ Len(levels[l][j].entries) > 0)
            => ~TablesOverlap(levels[l][i], levels[l][j])

\* C7: search visits the levels in ascending order and the tables of level 0
\* newest first: the i-th step at level 0 is the i-th table from the end of
\* level 0's list
C7_SearchNewestFirst ==
    \A k \in AllKeys :
        LET Ordered(path, l0) ==
                /\ \A i, j \in 1..Len(path) : i < j => path[i].level <= path[j].level
                /\ \A i \in 1..Len(l0) : l0[i].sstableId = levels[0][Len(levels[0]) + 1 - i].id
            Visited(path) == Ordered(path, SelectSeq(path, LAMBDA st : st.level = 0))
        IN  Visited(SSTableManagerSearch(levels, k).searchPath)

StrictlyIncreasing(entries) ==
    \A i \in 1..(Len(entries) - 1) : StrLess(entries[i].key, entries[i + 1].key)

\* C8: every table of the level map, made by a flush or by a compaction,
\* holds its records in strictly increasing key order
C8_TablesSorted == \A t \in AllTables : StrictlyIncreasing(t.entries)

\* C8 witness: a compaction has just merged tables sharing keys into a table
\* of several records
C8_Witness ==
    /\ lastOp.op = "compact" /\ lastOp.success /\ lastOp.duplicatesRemoved > 0
    /\ \E t \in AllTables : t.level = lastOp.level + 1 /\ Len(t.entries) >= 2

\* C9: when a put or a delete has flushed the memtable, then on return every
\* level 0..2 holds fewer tables than its threshold
C9_AutoCompactionAfterFlush ==
    (lastOp.op \in {"put", "delete"} /\ lastOp.flushed /\ ~lastOp.threw)
        => \A l \in 0..(AutoLevels - 1) : Len(levels[l]) < CompactThreshold(l)

\* C10: memtable bound: when a put or a delete has returned, the memtable
\* holds fewer records than the threshold
C10_MemtableBound ==
    lastOp.op \in {"put", "delete"} => SkipListSize(memtable) < threshold

\* C10 witness: a put has filled the memtable to a threshold above 1 and
\* flushed it
C10_Witness ==
    lastOp.op = "put" /\ lastOp.flushed /\ threshold > 1 /\ SkipListSize(memtable) = 0

\* C11: compact(L, L+1) called while level L holds no table returns a failure
\* (success = false, nothing thrown) and leaves the memtable, every level, the
\* id counter, the compaction history and counters and the stats as they were
C11_EmptySourceCompaction ==
    [][(lastOp'.op = "compact" /\ Len(GetLevel(levels, lastOp'.level)) = 0)
          => (/\ ~lastOp'.success
              /\ lastOp'.raised = "none"
              /\ UNCHANGED <<memtable, memtableLevel, levels, nextId, stats, compaction>>)]_vars

\* C11 witness: a compaction of an empty level has just failed in an engine
\* that holds tables and has a compaction on record
C11_Witness ==
    /\ lastOp.op = "compact" /\ ~lastOp.success /\ ~lastOp.threw
    /\ Len(GetLevel(levels, lastOp.level)) = 0
    /\ AllTables # {}
    /\ compaction.totalCompactions > 0

\* C12: a compaction whose merged output has no record adds no table to the
\* target level, so no table of the level map has an empty record list
C12_NoEmptyTable == \A t \in AllTables : Len(t.entries) > 0

\* everything the engine holds has been compacted into one level: the
\* memtable is flushed and the last compaction's target is the only level
\* that holds tables
CompactedToBottom ==
    /\ memtable = <<>>
    /\ lastOp.op = "compact" /\ lastOp.success
    /\ \A l \in Levels : l # lastOp.level + 1 => levels[l] = <<>>

\* C13: tombstone drop at the bottom: once the last write to k was a delete,
\* the memtable is flushed and compactions have taken every table down to the
\* deepest populated level, get(k) is a miss and no table holds a record for k
C13_TombstoneDropAtBottom ==
    \A k \in AllKeys :
        (lastWrite[k].kind = "delete" /\ CompactedToBottom)
            => (~GetNow(k).found /\ \A t \in AllTables : ~HasKey(t, k))

\* C14: bloom no-false-negative: for every table of the level map and every
\* key among its records, the table's filter answers contains(key) with
\* mightExist = true, and the table's get does not report a bloom-saved miss
C14_BloomNoFalseNegative ==
    \A t \in AllTables : \A i \in 1..Len(t.entries) :
        /\ BloomContains(t.entries, t.entries[i].key)
        /\ ~SSTableGet(t, t.entries[i].key).bloomFilterSaved

\* C14 witness: a get has just found its key in a table of several records,
\* past that table's filter
C14_Witness ==
    /\ lastOp.op = "get" /\ lastOp.success
    /\ memtable = <<>>
    /\ \E t \in AllTables : Len(t.entries) >= 2

\* C15: observer errors are quarantined: no put, delete, get, flush or
\* compact ends with the exception of a callback, and a put or delete still
\* does the flush it should (the memtable is below the threshold on return)
C15_ObserverErrorsQuarantined ==
    lastOp.op \in {"put", "delete", "get", "flush", "compact"}
        => (/\ lastOp.raised # "observer"
            /\ (lastOp.op \in {"put", "delete"} => SkipListSize(memtable) < threshold))

\* C16: put with the empty key is rejected: in every state, put("", v) does
\* not return success and leaves the memtable, the levels and all counters
\* as they were
C16_EmptyKeyRejected ==
    \A v \in Values, n \in NodeLevels :
        LET Rejected(o) == ~o.success /\ o.engine = Engine
        IN  Rejected(LSMPut(Engine, EmptyKey, v, n))

\* what get answers for every key in the engine e
Answers(e) == [j \in AllKeys |-> Answer(LSMGet(e.memtable, e.levels, j))]

\* C17: idempotent delete: in every state delete(k) returns success, and
\* delete(k) done twice in a row leaves get answering, for every key, what a
\* single delete(k) leaves
C17_IdempotentDelete ==
    \A k \in AllKeys, n1 \in NodeLevels, n2 \in NodeLevels :
        LET Twice(once, again) ==
                /\ once.success /\ again.success
                /\ Answers(again.engine) = Answers(once.engine)
            Once(once) == Twice(once, LSMDelete(once.engine, k, n2))
        IN  Once(LSMDelete(Engine, k, n1))

\* C18: clear() returns the engine to its initial state: the memtable empty
\* with height 0, no table at any level, the id counter restarted, the
\* compaction history empty, every counter zero; the registered observers are
\* kept, and get misses for every key afterwards
C18_ClearResets ==
    [][lastOp'.op = "clear"
          => (/\ memtable' = <<>> /\ memtableLevel' = 0
              /\ \A l \in Levels : GetLevel(levels', l) = <<>>
              /\ nextId' = 1
              /\ compaction' = ClearHistory
              /\ stats' = NoStats
              /\ callbacks' = callbacks
              /\ threshold' = threshold
              /\ \A k \in AllKeys : ~GetNext(k).found)]_vars

\* C18 witness: a clear has just wiped an engine that held tables and has an
\* observer registered
C18_Witness ==
    /\ lastOp.op = "clear" /\ lastOp.tablesCleared > 0
    /\ \E ev \in Events : callbacks[ev] # "null"

\* the tables a compaction of sourceLevel merges, in the current state
MergeInputs(sourceLevel) ==
    levels[sourceLevel]
        \o FindOverlappingSSTables(levels[sourceLevel], levels[sourceLevel + 1])

KeysOf(entries) == {entries[i].key : i \in 1..Len(entries)}

RECURSIVE RecordCount(_)
RecordCount(tables) ==
    IF tables = <<>> THEN 0 ELSE Len(Head(tables).entries) + RecordCount(Tail(tables))

InputKeys(tables) == UNION {KeysOf(tables[i].entries) : i \in 1..Len(tables)}

HasTombstone(tables, key) ==
    \E i \in 1..Len(tables) : \E j \in 1..Len(tables[i].entries) :
        tables[i].entries[j] = [key |-> key, value |-> Null]

\* C19: duplicate removal: after a successful compact(L, L+1) the output
\* table holds one record (never a tombstone) per distinct key of the input
\* tables, except for keys dropped as tombstones, each of which has a
\* tombstone among the input records; and duplicatesRemoved is the number of
\* input records minus the number of distinct input keys
C19_DuplicateRemoval ==
    [][(lastOp'.op = "compact" /\ lastOp'.success)
          => LET Counted(inputs, output) ==
                     /\ KeysOf(output) \subseteq InputKeys(inputs)
                     /\ \A i \in 1..Len(output) : output[i].value # Null
                     /\ Len(output) = Cardinality(InputKeys(inputs))
                                        - Cardinality(InputKeys(inputs) \ KeysOf(output))
                     /\ \A k \in InputKeys(inputs) \ KeysOf(output) : HasTombstone(inputs, k)
                     /\ lastOp'.duplicatesRemoved
                            = RecordCount(inputs) - Cardinality(InputKeys(inputs))
             IN  Counted(MergeInputs(lastOp'.level),
                         OutputTable(lastOp'.level + 1).entries)]_vars

\* C19 witness: a compaction has just removed duplicates and written a table
\* of one record, while a key whose last write was a delete is held nowhere:
\* its tombstone was dropped
C19_Witness ==
    /\ lastOp.op = "compact" /\ lastOp.success /\ lastOp.duplicatesRemoved > 0
    /\ Len(levels[lastOp.level + 1][Len(levels[lastOp.level + 1])].entries) = 1
    /\ \E k \in AllKeys :
           /\ lastWrite[k].kind = "delete"
           /\ ~SkipListSearch(memtable, k).found
           /\ \A t \in AllTables : ~HasKey(t, k)

\* a step that recorded at least one compaction
CompactionRecorded == compaction'.totalCompactions > compaction.totalCompactions

\* C20: write amplification monotonic: between clears the cumulative sum of
\* compaction output bytes never decreases, and clear() resets it to zero
C20_OutputBytesMonotonicBetweenClears ==
    [][IF lastOp'.op = "clear"
       THEN OutputBytesSum(compaction'.compactionHistory) = 0
       ELSE OutputBytesSum(compaction'.compactionHistory)
                >= OutputBytesSum(compaction.compactionHistory)]_vars

\* C20 witness: a second compaction has just been recorded and the sum is
\* above what a single output record accounts for
C20_Witness ==
    /\ lastOp.op = "compact" /\ lastOp.success
    /\ Len(compaction.compactionHistory) >= 2
    /\ OutputBytesSum(compaction.compactionHistory) > 100

\* C20 as stated: over any sequence of operations, the cumulative sum of
\* compaction output bytes after a compaction is at least what it was after
\* the compaction before it
C20_OutputBytesMonotonic ==
    [][CompactionRecorded
          => OutputBytesSum(compaction'.compactionHistory) >= lastCompacted]_vars

\* the number of tables among these that hold a record for key
TablesHolding(tables, key) == Cardinality({i \in 1..Len(tables) : HasKey(tables[i], key)})

\* C21: dedup by recency: after a successful compact(L, L+1), for every key
\* held by several input tables the record the merge kept is the one of the
\* newest input table: the output table holds that record's value, or no
\* record for the key when that record is a tombstone
C21_DedupByRecency ==
    [][(lastOp'.op = "compact" /\ lastOp'.success)
          => \A k \in AllKeys :
                 TablesHolding(MergeInputs(lastOp'.level), k) >= 2
                     => LET Kept(newest, output) ==
                                IF newest.value = Null THEN k \notin KeysOf(output)
                                ELSE \E i \in 1..Len(output) :
                                         output[i] = [key |-> k, value |-> newest.value]
                        IN  Kept(NewestInput(lastOp'.level, k),
                                 OutputTable(lastOp'.level + 1).entries)]_vars

\* C22: compact(L, L+1) called while level L holds at least one table runs to
\* completion: it returns success and throws nothing, also when an input
\* table has no record
C22_CompactionCompletes ==
    [][(lastOp'.op = "compact" /\ Len(GetLevel(levels, lastOp'.level)) > 0)
          => (lastOp'.success /\ lastOp'.raised # "TypeError")]_vars

\* the ranges of a source table and a target table have a key in common
\* (a table without records has no range)
OverlapsSource(source, target) ==
    Len(source.entries) > 0 /\ Len(target.entries) > 0 /\ TablesOverlap(source, target)

\* the tables of the target level whose range overlaps no table of the source level
KeptTargets(sourceLevel) ==
    SelectSeq(levels[sourceLevel + 1],
              LAMBDA t : \A i \in 1..Len(levels[sourceLevel]) :
                  ~OverlapsSource(levels[sourceLevel][i], t))

\* C23: a successful compact(L, L+1) leaves level L empty, leaves at level
\* L+1 exactly the previous tables of L+1 that overlapped no source table, in
\* their order, followed by one new table, appends one entry to the compaction
\* history and leaves the memtable and every other level unchanged
C23_CompactionFrame ==
    [][(lastOp'.op = "compact" /\ lastOp'.success)
          => LET Framed(src, dst, kept) ==
                     /\ levels'[src] = <<>>
                     /\ Len(levels'[dst]) = Len(kept) + 1
                     /\ SubSeq(levels'[dst], 1, Len(kept)) = kept
                     /\ levels'[dst][Len(kept) + 1].id = nextId
                     /\ Len(compaction'.compactionHistory)
                            = Len(compaction.compactionHistory) + 1
                     /\ memtable' = memtable /\ memtableLevel' = memtableLevel
                     /\ \A l \in Levels \ {src, dst} : levels'[l] = levels[l]
             IN  Framed(lastOp'.level, lastOp'.level + 1, KeptTargets(lastOp'.level))]_vars

\* how many times the call that led here called the callback of event ev
Delivered(ev) ==
    Cardinality({i \in 1..Len(lastOp.events) : lastOp.events[i].event = ev})

\* the same count for the call a step makes
DeliveredNext(ev) ==
    Cardinality({i \in 1..Len(lastOp'.events) : lastOp'.events[i].event = ev})

\* C24: flushMemtable() on a non-empty memtable appends one new table at the
\* end of level 0 holding exactly the memtable's records, tombstones included,
\* in key order, empties the memtable, adds one to memtableFlushes and calls a
\* registered onMemtableFlush callback once and no other callback; on an
\* empty memtable it returns null, changes nothing and calls no callback
C24_FlushEffect ==
    [][lastOp'.op = "flush"
          => IF memtable # <<>>
             THEN /\ lastOp'.flushed
                  /\ levels'[0] = Append(levels[0],
                                         [id |-> nextId, level |-> 0, entries |-> memtable])
                  /\ StrictlyIncreasing(memtable)
                  /\ \A l \in Levels \ {0} : levels'[l] = levels[l]
                  /\ memtable' = <<>>
                  /\ stats' = [stats EXCEPT !.memtableFlushes = @ + 1]
                  /\ DeliveredNext("onMemtableFlush")
                         = (IF callbacks["onMemtableFlush"] = "null" THEN 0 ELSE 1)
                  /\ Len(lastOp'.events) = DeliveredNext("onMemtableFlush")
             ELSE /\ ~lastOp'.flushed
                  /\ lastOp'.events = <<>>
                  /\ UNCHANGED <<memtable, memtableLevel, levels, nextId, stats, compaction,
                                 callbacks>>]_vars

\* C24 witness: a flush has just written a memtable of several records, a
\* tombstone among them, into a table at level 0 and called the flush observer
C24_Witness ==
    /\ lastOp.op = "flush" /\ lastOp.flushed
    /\ Delivered("onMemtableFlush") = 1
    /\ memtable = <<>>
    /\ Len(levels[0]) > 0
    /\ Len(levels[0][Len(levels[0])].entries) >= 2
    /\ \E i \in 1..Len(levels[0][Len(levels[0])].entries) :
           levels[0][Len(levels[0])].entries[i].value = Null

\* the position of key among the records
PositionOf(entries, key) == CHOOSE i \in 1..Len(entries) : entries[i].key = key

\* C25: SSTable.get is exact: get(q) on a table of n >= 1 records with
\* distinct keys returns found with the stored value when q is a key of the
\* table and a miss otherwise; and for every key of a table the slice chosen
\* from the sparse index contains the key's position
C25_TableGetExact ==
    /\ lastOp.op = "sstable.get"
           => LET Exact(entries) ==
                      IF lastOp.key \in KeysOf(entries)
                      THEN /\ lastOp.success
                           /\ lastOp.value = entries[PositionOf(entries, lastOp.key)].value
                      ELSE ~lastOp.success
              IN  Exact(levels[0][1].entries)
    /\ \A t \in AllTables : \A i \in 1..Len(t.entries) :
           LET Within(r) == r.start <= i /\ i <= r.end
           IN  Within(SparseRange(t.entries, t.entries[i].key))

\* C25 witness: a get has just found a key past the first index interval of a
\* table holding one record more than two index steps
C25_Witness ==
    /\ lastOp.op = "sstable.get" /\ lastOp.success
    /\ Len(levels[0][1].entries) = 2 * SparseStep + 1
    /\ PositionOf(levels[0][1].entries, lastOp.key) > SparseStep + 1

\* the positions the sparse index of a table of n records is to hold: every
\* SparseStep-th one from the first, and the last
IndexedPositions(n) == {i \in 1..n : (i - 1) % SparseStep = 0} \cup {n}

\* C26: sparse index invariant: for every table with n >= 1 records the
\* sparse index holds the key at every s-th position (s = 10) and the final
\* key, every entry is the key found at its position, and the index keys are
\* strictly increasing, no key twice
C26_SparseIndex ==
    \A t \in AllTables :
        Len(t.entries) >= 1
            => LET Sound(index) ==
                       /\ {index[j].position : j \in 1..Len(index)}
                              = IndexedPositions(Len(t.entries))
                       /\ \A j \in 1..Len(index) :
                              /\ index[j].position \in 1..Len(t.entries)
                              /\ index[j].key = t.entries[index[j].position].key
                       /\ StrictlyIncreasing(index)
               IN  Sound(BuildSparseIndex(t.entries, SparseStep))

\* C27: SSTable.scan(lo, hi) returns, in key order, exactly the records of the
\* table whose key k satisfies lo <= k <= hi, and nothing when lo is above
\* every key of the table
C27_ScanExact ==
    lastOp.op = "sstable.scan"
        => lastOp.scanned
               = SelectSeq(levels[0][1].entries,
                           LAMBDA r : StrLeq(lastOp.key, r.key) /\ StrLeq(r.key, lastOp.endKey))

\* the tables a search for key may examine: every table of level 0, and the
\* tables of the deeper levels that have records and whose [min, max] holds key
Eligible(key) ==
    {t \in AllTables :
        t.level = 0
        \/ (/\ Len(t.entries) > 0
            /\ StrLeq(t.entries[1].key, key)
            /\ StrLeq(key, t.entries[Len(t.entries)].key))}

SeenAfterUpdate(d) ==
    CASE d.event = "onMemtableInsert" ->
             /\ \E i \in 1..Len(d.seen.memtable) :
                    d.seen.memtable[i] = [key |-> lastOp'.key, value |-> lastOp'.value]
             /\ d.seen.stats.totalWrites + d.seen.stats.totalDeletes
                    = stats.totalWrites + stats.totalDeletes + 1
      [] d.event = "onMemtableFlush" ->
             /\ d.seen.memtable = <<>>
             /\ Len(d.seen.levels[0]) = Len(levels[0]) + 1
             /\ d.seen.levels[0][Len(levels[0]) + 1].id = nextId
             /\ d.seen.nextId = nextId + 1
             /\ d.seen.stats.memtableFlushes = stats.memtableFlushes + 1
      [] d.event = "onCompaction" ->
             /\ d.seen.levels = levels' /\ d.seen.nextId = nextId'
             /\ d.seen.compaction = compaction'
             /\ d.seen.compaction.totalCompactions > compaction.totalCompactions
             /\ d.seen.stats = stats'
             /\ d.seen.stats.totalCompactions > stats.totalCompactions
      [] d.event = "onRead" ->
             /\ d.seen.stats = stats'
             /\ d.seen.stats.totalReads = stats.totalReads + 1

\* the events a call is to deliver, in order, given what it did and which
\* callbacks are registered; a callback that throws ends the call
RECURSIVE UntilThrow(_)
UntilThrow(evs) ==
    IF evs = <<>> THEN <<>>
    ELSE IF callbacks[Head(evs)] = "throws" THEN <<Head(evs)>>
    ELSE <<Head(evs)>> \o UntilThrow(Tail(evs))

Produced ==
    UntilThrow(SelectSeq(
        (IF lastOp'.op \in {"put", "delete"} THEN <<"onMemtableInsert">> ELSE <<>>)
        \o (IF memtable' = <<>> /\ stats'.memtableFlushes > stats.memtableFlushes
            THEN <<"onMemtableFlush">> ELSE <<>>)
        \o (IF compaction'.totalCompactions > compaction.totalCompactions
            THEN <<"onCompaction">> ELSE <<>>)
        \o (IF lastOp'.op = "get" THEN <<"onRead">> ELSE <<>>),
        LAMBDA ev : callbacks[ev] # "null"))

\* C29: observer delivery order: within the call that produces them, the
\* registered callbacks are called once each, insert before flush before
\* compaction, and each finds the engine after the change that produced its
\* event: the record in the memtable; the new level-0 table installed and the
\* memtable emptied; the levels replaced and the compaction counters updated;
\* the read counters updated
C29_DeliveryAfterUpdate ==
    [][lastOp'.op \in {"put", "delete", "get", "flush", "compact"}
          => (/\ \A i \in 1..Len(lastOp'.events) : SeenAfterUpdate(lastOp'.events[i])
              /\ (lastOp'.raised # "TypeError"
                     => [i \in 1..Len(lastOp'.events) |-> lastOp'.events[i].event]
                            = Produced))]_vars

\* C29 witness: a put has just called the insert observer and then the flush
\* observer
C29_Witness ==
    /\ lastOp.op = "put" /\ ~lastOp.threw /\ lastOp.flushed
    /\ Len(lastOp.events) = 2
    /\ lastOp.events[1].event = "onMemtableInsert"
    /\ lastOp.events[2].event = "onMemtableFlush"

\* the ids of the tables of a level map
IdsIn(lv) == UNION {{lv[l][i].id : i \in 1..Len(lv[l])} : l \in DOMAIN lv}

\* an engine in which the compaction m is not started (its output not there,
\* its inputs all there as far as they are created yet) or fully applied (its
\* output there, no input left)
AllOrNothing(seen, m) ==
    \/ /\ m.outputId \notin IdsIn(seen.levels)
       /\ {id \in m.inputIds : id < seen.nextId} \subseteq IdsIn(seen.levels)
    \/ /\ m.outputId \in IdsIn(seen.levels)
       /\ m.inputIds \cap IdsIn(seen.levels) = {}

\* C30: compaction is atomic for observers: no callback is called between the
\* removal of a compaction's source tables and the insertion of its output
\* table: the level map a callback finds is none of the maps a compaction of
\* the call passes through, and shows every compaction of the call either
\* not started or fully applied
C30_CompactionAtomicForObservers ==
    lastOp.op \in {"put", "delete", "flush", "compact", "get"}
        => \A i \in 1..Len(lastOp.events) : \A j \in 1..Len(lastOp.merges) :
               /\ AllOrNothing(lastOp.events[i].seen, lastOp.merges[j])
               /\ \A n \in 1..Len(lastOp.merges[j].stages) :
                      lastOp.events[i].seen.levels # lastOp.merges[j].stages[n]

\* C30 witness: a put has just flushed and auto-compacted level 0; the flush
\* observer was called before the compaction started, the compaction
\* observer after it was applied
C30_Witness ==
    /\ lastOp.op = "put" /\ Len(lastOp.merges) > 0
    /\ \E i, j \in 1..Len(lastOp.events) :
           /\ lastOp.events[i].event = "onMemtableFlush"
           /\ lastOp.merges[1].inputIds \subseteq IdsIn(lastOp.events[i].seen.levels)
           /\ lastOp.events[j].event = "onCompaction"
           /\ lastOp.merges[1].outputId \in IdsIn(lastOp.events[j].seen.levels)

----------------------------------------------------------------------------
\* the keys the ordered map holds
Held == {k \in ListKeys : reference[k] # Undefined}

\* the list answers search, size and getAllEntries as the ordered map does
RefinesMap(sl, map) ==
    /\ \A k \in ListKeys :
           ListSearch(sl, k) = IF map[k] = Undefined
                               THEN [found |-> FALSE, value |-> Null]
                               ELSE [found |-> TRUE, value |-> map[k]]
    /\ sl.size = Cardinality({k \in ListKeys : map[k] # Undefined})
    /\ LET Listed(entries) ==
               /\ StrictlyIncreasing(entries)
               /\ Len(entries) = sl.size
               /\ {entries[p] : p \in 1..Len(entries)}
                      = {[key |-> k, value |-> map[k]] : k \in {x \in ListKeys : map[x] # Undefined}}
       IN  Listed(ListGetAllEntries(sl))

\* C31: the skip list refines an ordered map. After every insert, delete and
\* clear, search(k) is found with the last value inserted iff k was inserted
\* and not removed since, size is the number of such keys, getAllEntries lists
\* exactly those keys in strictly increasing order; a repeat insert leaves size
\* unchanged, and delete of an absent key fails and changes nothing.
C31_OrderedMapRefinement ==
    /\ RefinesMap(skiplist, reference)
    /\ \A k \in Held :
           /\ ListDelete(skiplist, k).success
           /\ \A v \in ListValues, n \in 0..ListMaxLevel :
                  ListInsert(skiplist, k, v, n).list.size = skiplist.size
    /\ \A k \in ListKeys \ Held :
           ListDelete(skiplist, k) = [list |-> skiplist, success |-> FALSE]

\* C31 witness: a key among several was overwritten in place in a list of
\* height above 0, after some key had been removed
C31_Witness ==
    /\ lastOp.op = "list.insert"
    /\ lastOp.operation = "UPDATE"
    /\ lastOp.value = 2
    /\ skiplist.size = 2
    /\ skiplist.level >= 1
    /\ reference[KeyOf(2)] = Undefined
    /\ FreshNode(skiplist) < 3

\* the levels of the list, 0..maxLevel
ListLevels(sl) == 0..sl.maxLevel

\* the nodes on the chain at level i
OnChain(sl, i) == {ChainAt(sl, i)[p] : p \in 1..Len(ChainAt(sl, i))}

\* the shape the forward pointers keep
WellFormed(sl) ==
    /\ Len(sl.header) = sl.maxLevel + 1
    /\ \A n \in DOMAIN sl.nodes :
           /\ Len(sl.nodes[n].forward) \in 1..(sl.maxLevel + 1)
           /\ \A i \in ListLevels(sl) : n \in OnChain(sl, i) <=> i < Len(sl.nodes[n].forward)
    /\ \A i \in ListLevels(sl) :
           LET Sorted(chain) ==
                   /\ Len(chain) <= Cardinality(DOMAIN sl.nodes)
                   /\ \A p \in 1..(Len(chain) - 1) :
                          StrLess(sl.nodes[chain[p]].key, sl.nodes[chain[p + 1]].key)
           IN  Sorted(ChainAt(sl, i))
    /\ \A i \in ListLevels(sl) \ {0} : OnChain(sl, i) \subseteq OnChain(sl, i - 1)
    /\ \A i \in ListLevels(sl) : i > sl.level => OnChain(sl, i) = {}
    /\ sl.level > 0 => OnChain(sl, sl.level) # {}
    /\ sl.nodes = <<>> => sl.level = 0

\* C32: after every insert, delete and clear, whatever level is drawn, every
\* forward array has length level + 1 <= maxLevel + 1, the chain at every level
\* is strictly increasing by key and runs through nodes of the chain below, and
\* the list height is the highest level that holds a node, 0 when empty.
C32_StructureInvariant == WellFormed(skiplist)

\* C32 witness: a delete took the only node of the two top levels away and the
\* height shrank from 2 to 0 with nodes left
C32_Witness ==
    /\ lastOp.op = "list.delete"
    /\ lastOp.success
    /\ lastOp.height = 2
    /\ skiplist.level = 0
    /\ skiplist.size = 2

\* the node of the list that holds the key
NodeWith(sl, key) == CHOOSE n \in DOMAIN sl.nodes : sl.nodes[n].key = key

\* C33: insert returns INSERT with the new node's level for a new key and
\* UPDATE with the existing node's level, its forward-array length minus one,
\* for a key already present, wherever the node sits in the list.
C33_InsertResult ==
    [][lastOp'.op = "list.insert"
          => /\ lastOp'.operation = IF lastOp'.key \in Held THEN "UPDATE" ELSE "INSERT"
             /\ lastOp'.level
                    = Len(skiplist'.nodes[NodeWith(skiplist', lastOp'.key)].forward) - 1]_vars

\* the values of the records held for key, in the memtable and in every table
RecordValues(key) ==
    {memtable[p].value : p \in {q \in 1..Len(memtable) : memtable[q].key = key}}
    \cup UNION {{t.entries[p].value : p \in {q \in 1..Len(t.entries) : t.entries[q].key = key}}
                   : t \in AllTables}

\* C34: the tombstone is distinct from every value put accepts, null included:
\* while every record held for k is the one put(k, v) wrote and get(k) answers
\* found with v, any step other than a new write to k or a clear - a flush, a
\* compaction, a command on another key - leaves get(k) answering found with v.
C34_TombstoneDistinct ==
    [][\A k \in TermKeys :
          (/\ lastWrite[k].kind = "put"
           /\ lastWrite'[k] = lastWrite[k]
           /\ RecordValues(k) = {lastWrite[k].value}
           /\ GetNow(k) = [found |-> TRUE, value |-> lastWrite[k].value])
          => GetNext(k) = [found |-> TRUE, value |-> lastWrite[k].value]]_vars

\* the token is a non-negative integer: decimal digits and nothing else
IsNonNegativeInteger(tok) == tok # <<>> /\ \A p \in 1..Len(tok) : tok[p] \in 48..57

\* the command line is a usage error: an unknown verb, a missing argument, or
\* a COMPACT level that is not a non-negative integer
UsageError(parts) ==
    LET Verb(cmd) ==
            \/ cmd \notin {TokPUT, TokGET, TokDELETE, TokCOMPACT, TokSTATS, TokHELP, TokCLEAR}
            \/ cmd = TokPUT /\ Len(parts) < 3
            \/ cmd \in {TokGET, TokDELETE, TokCOMPACT} /\ Len(parts) < 2
            \/ cmd = TokCOMPACT /\ Len(parts) >= 2 /\ ~IsNonNegativeInteger(parts[2])
    IN  parts # <<>> /\ Verb(ToUpperCase(parts[1]))

\* C39: terminal usage errors change no state: for a command line with an
\* unknown verb, a missing argument or a COMPACT level token that is not a
\* non-negative integer, the terminal prints an error and the memtable, the
\* levels and the counters are as before.
C39_UsageErrorNoChange ==
    [][UsageError(lastOp'.command)
          => /\ lastOp'.printed = "error"
             /\ UNCHANGED <<memtable, memtableLevel, levels, nextId, stats, compaction>>]_vars

\* the level's list holds the table, with its id, level field and records
HeldAt(lv, level, t) == \E i \in 1..Len(lv[level]) : lv[level][i] = t

\* the ids of the tables the compactions of the last call took as inputs
ConsumedNext == UNION {lastOp'.merges[i].inputIds : i \in 1..Len(lastOp'.merges)}

\* C35: SSTable immutability and lifecycle: a table held by a level is held by
\* the same level after every call, with the same id and records (and so the
\* same key range and sparse index, which are built from the records), unless
\* the call was clear or one of its compactions took the table as an input;
\* get, delete, flush and a put without compaction keep every table.
C35_TableLifecycle ==
    [][\A l \in Levels : \A i \in 1..Len(levels[l]) :
          /\ (\/ HeldAt(levels', l, levels[l][i])
              \/ lastOp'.op = "clear"
              \/ levels[l][i].id \in ConsumedNext)
          /\ (lastOp'.op \in {"get", "delete", "flush"} \/ (lastOp'.op = "put" /\ lastOp'.merges = <<>>)
                 => HeldAt(levels', l, levels[l][i]))]_vars

\* C35 witness: a compaction has replaced its input tables by its output while
\* a table of the target level that it did not take is still held there
C35_Witness ==
    /\ lastOp.op = "compact"
    /\ lastOp.success
    /\ Len(lastOp.merges) = 1
    /\ \E i \in 1..Len(levels[lastOp.level + 1]) :
           /\ levels[lastOp.level + 1][i].id \notin lastOp.merges[1].inputIds
           /\ levels[lastOp.level + 1][i].id < lastOp.merges[1].outputId
    /\ \A t \in AllTables : t.id \notin lastOp.merges[1].inputIds

\* ids are pairwise distinct and below the counter, level fields are the
\* holding levels
IdentityOK(lv, counter) ==
    /\ \A l \in Levels : \A i \in 1..Len(lv[l]) :
           /\ lv[l][i].level = l
           /\ lv[l][i].id \in 1..(counter - 1)
           /\ \A l2 \in Levels : \A j \in 1..Len(lv[l2]) :
                  lv[l][i].id = lv[l2][j].id => l = l2 /\ i = j

\* C36: SSTable identity: in every state the tables held have pairwise
\* distinct ids and each table's level field is the level whose list holds it;
\* between two clears ids are allocated in strictly increasing order: a table
\* that appears takes an id not below the counter before the call and below
\* the counter after it, and the counter never decreases.
C36_TableIdentity ==
    [][/\ IdentityOK(levels', nextId')
       /\ lastOp'.op # "clear"
              => /\ nextId' >= nextId
                 /\ \A l \in Levels : \A i \in 1..Len(levels'[l]) :
                        \/ levels'[l][i] \in AllTables
                        \/ levels'[l][i].id \in nextId..(nextId' - 1)]_vars

\* C36 witness: a flush has added a table to level 0 while level 1 holds the
\* output of an earlier compaction: three tables on two levels
C36_Witness ==
    /\ lastOp.op = "put"
    /\ lastOp.flushed
    /\ Cardinality(AllTables) >= 3
    /\ Len(levels[0]) >= 2
    /\ levels[1] # <<>>
    /\ compaction.totalCompactions >= 1

\* C37: counter consistency: after every call stats.totalCompactions equals
\* the compaction engine's totalCompactions and the length of its history;
\* put adds one to totalWrites only, delete one to totalDeletes only, get one
\* to totalReads only, clear sets the three to 0 and no other call changes
\* them, so that each equals the number of such calls since construction or
\* the last clear.
C37_CounterConsistency ==
    [][/\ stats'.totalCompactions = compaction'.totalCompactions
       /\ compaction'.totalCompactions = Len(compaction'.compactionHistory)
       /\ <<stats'.totalWrites, stats'.totalDeletes, stats'.totalReads>>
              = CASE lastOp'.op = "put"
                       -> <<stats.totalWrites + 1, stats.totalDeletes, stats.totalReads>>
                  [] lastOp'.op = "delete"
                       -> <<stats.totalWrites, stats.totalDeletes + 1, stats.totalReads>>
                  [] lastOp'.op = "get"
                       -> <<stats.totalWrites, stats.totalDeletes, stats.totalReads + 1>>
                  [] lastOp'.op = "clear" -> <<0, 0, 0>>
                  [] OTHER -> <<stats.totalWrites, stats.totalDeletes, stats.totalReads>>]_vars

\* C38: get is read-only for data: get(k) leaves the memtable, every level's
\* table list with every table's records, the id counter and the compaction
\* history as they were; of the statistics only totalReads, bloomFilterHits
\* and bloomFilterMisses may change.
C38_GetReadOnly ==
    [][lastOp'.op = "get"
          => /\ UNCHANGED <<memtable, memtableLevel, threshold, levels, nextId, compaction,
                           callbacks>>
             /\ stats' = [stats EXCEPT !.totalReads = stats'.totalReads,
                                       !.bloomFilterHits = stats'.bloomFilterHits,
                                       !.bloomFilterMisses = stats'.bloomFilterMisses]
             /\ stats'.totalReads = stats.totalReads + 1]_vars

\* C38 witness: a get missed a non-empty memtable and found its key in a table
\* written by a compaction
C38_Witness ==
    /\ lastOp.op = "get"
    /\ lastOp.success
    /\ lastOp.sstablesChecked >= 1
    /\ memtable # <<>>
    /\ compaction.totalCompactions >= 1
    /\ stats.bloomFilterHits + stats.bloomFilterMisses >= 1

====
